---- MODULE Spec2Model ----
(***************************************************************************)
(* Service orchestration layer of home-dashboard: the resilient source     *)
(* (lib/BaseService.ts) over the durable state document (lib/state.ts),    *)
(* and the aggregator (lib/dataBuilder.ts).                                *)
(*                                                                         *)
(* One getData call is a sequence of steps separated by the awaits of the  *)
(* code (the awaited fetchData, the awaited sleep); everything between two *)
(* awaits is one atomic step, as in a single-threaded event loop.          *)
(***************************************************************************)
EXTENDS Integers, Sequences, FiniteSets, TLC

VARIABLES
    now,      \* Date.now(), in abstract ticks
    env,      \* the deployment: the sources whose upstream and credentials vary, the
              \* sources whose upstream is down, the credentials, the locations
    opts,     \* per source: the options its constructor passes to BaseService
    state,    \* the state document (state.json): service_cache, service_status, daily_highs
    calls,    \* the getData calls: per slot, the instance and the position of the call
    today,    \* the local calendar date, as a day number
    agg       \* the buildDashboardData run: its position, its locals, its result

vars == <<now, env, opts, state, calls, today, agg>>

----------------------------------------------------------------------------
(* Bounds of the model *)

MaxTime == 3          \* the clock stops ticking here
MaxAttempts == 3      \* largest retryAttempts drawn for a generic instance
MaxRuns == 2          \* buildDashboardData runs in one behaviour

(* The clock starts positive: Date.now() is milliseconds since 1970. *)
StartTime == 1
FirstDay == 1
DayLen == 2           \* clock ticks in a day

----------------------------------------------------------------------------
(* JavaScript values *)

NULL == "null"                 \* null / undefined in a string-valued place
NullNum == 0 - 1               \* null in a number-valued place
Absent == [absent |-> TRUE]    \* a missing property of a map: undefined
NullData == [isNull |-> TRUE]  \* data: null

\* a || b on strings: "" and null are falsy
OrStr(a, b) == IF a = NULL \/ a = "" THEN b ELSE a
\* a || b on numbers: 0 and null are falsy
OrNum(a, b) == IF a = NullNum \/ a = 0 THEN b ELSE a

IsTruthyData(d) == d # NullData

----------------------------------------------------------------------------
(* The sources *)

WEATHER == "weather-google"
CALENDAR == "calendar"
LLM == "llm"
NEWS == "news"
MARKETS == "markets"

AllKeys == {WEATHER, CALENDAR, LLM, NEWS, MARKETS}

\* Location configurations (MAIN_LOCATION / ADDITIONAL_LOCATIONS)
Locations == {"locA", "locB"}

\* Error messages of failed attempts
Msgs == {"e1", "e2"}

\* cacheTTL in ticks (cacheTTLMinutes * 60 * 1000 in the services)
CacheTTL == 2

\* The options the services' constructors pass
ServiceOptions(k) ==
    CASE k = WEATHER  -> [cacheTTL |-> CacheTTL, retryAttempts |-> 3, retryCooldown |-> 1000]
      [] k = CALENDAR -> [cacheTTL |-> CacheTTL, retryAttempts |-> 2, retryCooldown |-> 1000]
      [] k = LLM      -> [cacheTTL |-> CacheTTL, retryAttempts |-> 3, retryCooldown |-> 300]
      [] k = NEWS     -> [cacheTTL |-> CacheTTL, retryAttempts |-> 2, retryCooldown |-> 2000]
      [] k = MARKETS  -> [cacheTTL |-> CacheTTL, retryAttempts |-> 3, retryCooldown |-> 1000]

\* the defaults of the constructor of BaseService: 15 minutes, 3 attempts, 1000 ms
DefaultCacheTTL == 1
DefaultRetryAttempts == 3
DefaultRetryCooldown == 1000

\* constructor(options): the fields of the instance, an option that is missing (null)
\* or 0 giving way to the default; given keeps the options as they were passed
Constructor(options) ==
    [cacheTTL      |-> OrNum(options.cacheTTL, DefaultCacheTTL),
     retryAttempts |-> OrNum(options.retryAttempts, DefaultRetryAttempts),
     retryCooldown |-> OrNum(options.retryCooldown, DefaultRetryCooldown),
     given         |-> options]

\* a service that does not override isEnabled(): BaseService's default, true
isEnabled_NotOverridden(k) == TRUE

\* isEnabled(): the credentials of the source are configured
isEnabled(k) == env.enabled[k]

\* getCacheSignature(config): null by default, the configured locations for weather
getCacheSignature(k) == IF k = WEATHER THEN env.locations ELSE NULL

----------------------------------------------------------------------------
(* lib/state.ts: the state document *)

EmptyState ==
    [service_cache  |-> [k \in AllKeys |-> Absent],
     service_status |-> [k \in AllKeys |-> Absent],
     daily_highs    |-> <<>>]

\* the file system: whether reading and writing the state file succeed (env.io)
IoWorks == [read |-> TRUE, write |-> TRUE]
IoModes == [read : BOOLEAN, write : BOOLEAN]

\* readState(): the document, or {} when the file cannot be read or parsed
readState(st) == IF env.io.read THEN st ELSE EmptyState

\* writeState(state): the file holds the new document unless the write fails,
\* which is only logged
writeState(st, document) == IF env.io.write THEN document ELSE st

\* getStateKey(key, {}): the value under key of the document as read
getStateKey(st, key) == readState(st)[key]

\* setStateKey(key, value): read the document, replace one key, write it back
setStateKey(st, key, value) == writeState(st, [readState(st) EXCEPT ![key] = value])

----------------------------------------------------------------------------
(* lib/BaseService.ts *)

\* this.status as the constructor leaves it
InitialStatus == [state |-> "unknown", latency |-> NullNum, error |-> NULL]

\* getCache that applies the TTL even when allowStale is set
getCache_NoStale(st, k, allowStale, signature, t, ttl) ==
    LET cache == getStateKey(st, "service_cache")[k] IN
    IF cache = Absent \/ ~IsTruthyData(cache.data) THEN NullData
    ELSE IF OrStr(signature, NULL) # NULL /\ cache.signature # signature THEN NullData
    ELSE IF (t - cache.fetchedAt) < ttl THEN cache.data
    ELSE NullData

\* getCache that takes the TTL for half of what it is
getCache_HalfTTL(st, k, allowStale, signature, t, ttl) ==
    LET cache == getStateKey(st, "service_cache")[k] IN
    IF cache = Absent \/ ~IsTruthyData(cache.data) THEN NullData
    ELSE IF OrStr(signature, NULL) # NULL /\ cache.signature # signature THEN NullData
    ELSE IF allowStale THEN cache.data
    ELSE IF (t - cache.fetchedAt) < ttl \div 2 THEN cache.data
    ELSE NullData

\* getCache that does not compare signatures
getCache_IgnoresSignature(st, k, allowStale, signature, t, ttl) ==
    LET cache == getStateKey(st, "service_cache")[k] IN
    IF cache = Absent \/ ~IsTruthyData(cache.data) THEN NullData
    ELSE IF allowStale THEN cache.data
    ELSE IF (t - cache.fetchedAt) < ttl THEN cache.data
    ELSE NullData

\* getCache answering from an expired entry whatever allowStale is
getCache_AlwaysStale(st, k, allowStale, signature, t, ttl) ==
    LET cache == getStateKey(st, "service_cache")[k] IN
    IF cache = Absent \/ ~IsTruthyData(cache.data) THEN NullData
    ELSE IF signature # NULL /\ cache.signature # signature THEN NullData
    ELSE cache.data

\* getCache that compares signatures only when it looks for a fresh entry
getCache_StaleAnySignature(st, k, allowStale, signature, t, ttl) ==
    LET cache == getStateKey(st, "service_cache")[k] IN
    IF cache = Absent \/ ~IsTruthyData(cache.data) THEN NullData
    ELSE IF allowStale THEN cache.data
    ELSE IF OrStr(signature, NULL) # NULL /\ cache.signature # signature THEN NullData
    ELSE IF (t - cache.fetchedAt) < ttl THEN cache.data
    ELSE NullData

\* getCache(allowStale, signature) at time t for a source whose TTL is ttl
getCache(st, k, allowStale, signature, t, ttl) ==
    LET cache == getStateKey(st, "service_cache")[k] IN
    IF cache = Absent \/ ~IsTruthyData(cache.data) THEN NullData
    ELSE IF OrStr(signature, NULL) # NULL /\ cache.signature # signature THEN NullData
    ELSE IF allowStale THEN cache.data
    ELSE IF (t - cache.fetchedAt) < ttl THEN cache.data
    ELSE NullData

\* the entry written into a map read as empty: the other sources' entries lost
setCache_Alone(st, k, data, signature, t) ==
    setStateKey(st, "service_cache",
        [EmptyState.service_cache EXCEPT
            ![k] = [data |-> data, fetchedAt |-> t, signature |-> signature]])

\* the entry stored without the call's signature
setCache_NoSignature(st, k, data, signature, t) ==
    LET allCaches == getStateKey(st, "service_cache") IN
    setStateKey(st, "service_cache",
        [allCaches EXCEPT ![k] = [data |-> data, fetchedAt |-> t, signature |-> NULL]])

\* setCache(data, signature) at time t
setCache(st, k, data, signature, t) ==
    LET allCaches == getStateKey(st, "service_cache") IN
    setStateKey(st, "service_cache",
        [allCaches EXCEPT ![k] = [data |-> data, fetchedAt |-> t, signature |-> signature]])

\* clearCache()
clearCache(st, k) ==
    LET allCaches == getStateKey(st, "service_cache") IN
    setStateKey(st, "service_cache", [allCaches EXCEPT ![k] = Absent])

Min(a, b) == IF a < b THEN a ELSE b

\* the delay without the ceiling of 10 s
getBackoffDelay_NoCeiling(retryCooldown, attempt, jitter) ==
    retryCooldown * (2 ^ attempt) + jitter

\* getBackoffDelay(attempt), jitter being the value of Math.random() * 200
getBackoffDelay(retryCooldown, attempt, jitter) ==
    LET delay == retryCooldown * (2 ^ attempt) IN
    Min(delay + jitter, 10000)

\* saveStatus(): only state, latency and error are stored
saveStatus(st, k, status) ==
    LET allStatuses == getStateKey(st, "service_status") IN
    setStateKey(st, "service_status",
        [allStatuses EXCEPT ![k] =
            [state |-> status.state, latency |-> status.latency, error |-> status.error]])

\* loadStatus(): this.status after merging the saved entry, falsy fields skipped
loadStatus(st, k, status) ==
    LET saved == getStateKey(st, "service_status")[k] IN
    IF saved = Absent THEN status
    ELSE [state   |-> OrStr(saved.state, status.state),
          latency |-> OrNum(saved.latency, status.latency),
          error   |-> OrStr(saved.error, status.error)]

\* getStatus(): the ServiceStatus returned (this.status becomes loadStatus(...))
getStatus(st, k, status) ==
    LET loaded == loadStatus(st, k, status)
        enabled == isEnabled(k)
        cache == getStateKey(st, "service_cache")[k]
        fetchedAt == IF cache = Absent THEN NullNum ELSE OrNum(cache.fetchedAt, NullNum)
        st8 == IF loaded.state \in {NULL, "", "unknown"}
               THEN IF ~enabled THEN "disabled"
                    ELSE IF fetchedAt = NullNum THEN "pending"
                    ELSE "unknown"
               ELSE loaded.state
    IN [isEnabled |-> enabled,
        state     |-> st8,
        cacheTTL  |-> opts[k].cacheTTL,
        fetchedAt |-> fetchedAt,
        latency   |-> loaded.latency,
        error     |-> loaded.error]

----------------------------------------------------------------------------
(* What the upstream APIs can answer *)

\* A text is a sequence of chunks: " " is white space, any other chunk a run of
\* other characters. The summaries an LLM answers: empty, blank, plain, padded.
Texts == {<<>>, <<" ">>, <<"w">>, <<" ", "w", " ">>}
Undefined == <<"undefined">>   \* a missing string property

\* What a source answers when its upstream works as usual
UsualData(k) ==
    CASE k = WEATHER  -> [high |-> 18, daily_summary |-> Undefined, current_temp |-> 9,
                          condition |-> "Light rain",
                          forecast |-> <<[high |-> 18, low |-> 8, rain_chance |-> 70],
                                         [high |-> 25, low |-> 12, rain_chance |-> 0]>>,
                          hourlyForecast |-> <<[temp |-> 9, rain_chance |-> 60],
                                               [temp |-> 14, rain_chance |-> 20]>>]
      [] k = CALENDAR -> [events |-> <<"ev">>]
      [] k = LLM      -> [daily_summary |-> <<"w">>]
      [] k = NEWS     -> [summary |-> <<"w">>]
      [] k = MARKETS  -> [quotes |-> <<"q">>]

\* Two answers of the weather API after mapToDashboard: a rainy day with forecasts,
\* and a bare answer with an AI summary (high is locations[0].forecast[0].high)
WeatherData ==
    {UsualData(WEATHER),
     [high |-> 25, daily_summary |-> <<"w">>, current_temp |-> NullNum,
      condition |-> NULL, forecast |-> <<>>, hourlyForecast |-> <<>>]}

\* The dashboard data a successful fetchData + mapToDashboard can produce
ApiData(k) ==
    CASE k = WEATHER  -> WeatherData
      [] k = CALENDAR -> {[events |-> e] : e \in {<<>>, <<"ev">>}}
      [] k = LLM      -> {[daily_summary |-> t] : t \in Texts \cup {Undefined}}
      [] k = NEWS     -> {[summary |-> t] : t \in {<<>>, <<"w">>}}
      [] k = MARKETS  -> {[quotes |-> q] : q \in {<<"q">>}}

\* The error of an upstream that is down
DownMsg == "e1"

\* Math.random() * 200 lies in [0, 200)
Jitters == {0, 199}

----------------------------------------------------------------------------
(* One getData call: lib/BaseService.ts, getData *)

IdleCall ==
    [pc |-> "idle", key |-> NULL, cacheSignature |-> NULL, status |-> InitialStatus,
     attempt |-> 0, lastError |-> NULL, apiCallStart |-> NullNum, delay |-> NullNum,
     fetches |-> 0, sleeps |-> 0, outcome |-> Absent]

\* return { data, source, status: this.getStatus() }
Returned(st, c, data, source) ==
    [c EXCEPT !.pc = "done",
              !.status = loadStatus(st, c.key, c.status),
              !.outcome = [kind |-> "returned", data |-> data, source |-> source,
                           status |-> getStatus(st, c.key, c.status)]]

\* throw lastError
Thrown(c) ==
    [c EXCEPT !.pc = "done", !.outcome = [kind |-> "thrown", message |-> c.lastError]]

\* the start taken once, before the loop: the first attempt's
StartFetch_FirstStart(c) ==
    [c EXCEPT !.pc = "fetching",
              !.apiCallStart = IF @ = NullNum THEN now ELSE @,
              !.delay = NullNum, !.fetches = @ + 1]

\* lines 212-213: apiCallStart = Date.now(); await this.fetchData(config, logger)
StartFetch(c) ==
    [c EXCEPT !.pc = "fetching", !.apiCallStart = now, !.delay = NullNum,
              !.fetches = @ + 1]

\* lines 176-213: from the call to the first await, on a new instance for source k,
\* the document being st when the call is made
GetDataFrom(p, k, st) ==
    LET sig == getCacheSignature(k)
        c1 == [IdleCall EXCEPT !.key = k, !.cacheSignature = sig,
                               !.status = loadStatus(st, k, InitialStatus)]
        cached == getCache(st, k, FALSE, sig, now, opts[k].cacheTTL)
    IN  IF ~isEnabled(k) THEN
            LET c2 == [c1 EXCEPT !.status.state = "disabled"]
                st2 == saveStatus(st, k, c2.status)
            IN  /\ state' = st2
                /\ calls' = [calls EXCEPT ![p] = Returned(st2, c2, NullData, "disabled")]
        ELSE IF IsTruthyData(cached) THEN
            LET c2 == [c1 EXCEPT !.status.state = "healthy"]
                st2 == saveStatus(st, k, c2.status)
            IN  /\ state' = st2
                /\ calls' = [calls EXCEPT ![p] = Returned(st2, c2, cached, "cache")]
        ELSE
            /\ state' = st
            /\ calls' = [calls EXCEPT ![p] = StartFetch(c1)]

\* the entry stamped with the time the fetch of call c began
StampOf_CallStart(c) == c.apiCallStart

\* line 79: the fetchedAt of the entry call c writes, Date.now() at the write
StampOf(c) == now

\* lines 214-229: fetchData resolved and mapToDashboard returned dashboardData
FetchSucceeds(p, dashboardData) ==
    /\ calls[p].pc = "fetching"
    /\ dashboardData \in ApiData(calls[p].key)
    /\ \/ calls[p].key \in env.sources
       \/ calls[p].key \notin env.down /\ dashboardData = UsualData(calls[p].key)
    /\ LET c == calls[p]
           k == c.key
           apiLatency == now - c.apiCallStart
           st1 == setCache(state, k, dashboardData, c.cacheSignature, StampOf(c))
           c2 == [c EXCEPT !.status = [state |-> "healthy", latency |-> apiLatency,
                                       error |-> NULL]]
           st2 == saveStatus(st1, k, c2.status)
       IN  /\ state' = st2
           /\ calls' = [calls EXCEPT ![p] = Returned(st2, c2, dashboardData, "api")]
    /\ UNCHANGED <<now, env, opts, today, agg>>

\* the stale answer with the state left as it was loaded
DegradedStatus_StateKept(status, lastError) ==
    [status EXCEPT !.error = lastError]

\* lines 240-242: this.status when the stale cache answers
DegradedStatus(status, lastError) ==
    [status EXCEPT !.state = "degraded", !.error = lastError]

\* the unhealthy status without line 255, the latency kept
UnhealthyStatus_KeepsLatency(status, lastError) ==
    [status EXCEPT !.state = "unhealthy", !.error = lastError]

\* lines 253-256: this.status when nothing answers
UnhealthyStatus(status, lastError) ==
    [state |-> "unhealthy", latency |-> NullNum, error |-> lastError]

\* lines 236-259: all retries failed
AfterLastAttempt(p, c) ==
    LET k == c.key
        staleCache == getCache(state, k, TRUE, c.cacheSignature, now, opts[k].cacheTTL)
    IN  IF IsTruthyData(staleCache) THEN
            LET c2 == [c EXCEPT !.status = DegradedStatus(c.status, c.lastError)]
                st2 == saveStatus(state, k, c2.status)
            IN  /\ state' = st2
                /\ calls' = [calls EXCEPT ![p] = Returned(st2, c2, staleCache, "stale_cache")]
        ELSE
            LET c2 == [c EXCEPT !.status = UnhealthyStatus(c.status, c.lastError)]
                st2 == saveStatus(state, k, c2.status)
            IN  /\ state' = st2
                /\ calls' = [calls EXCEPT ![p] = Thrown(c2)]

\* the loop without its bound
MoreAttempts_Forever(c) == c.attempt >= 0

\* the loop going one round too far
MoreAttempts_OneTooMany(c) == c.attempt <= opts[c.key].retryAttempts

\* line 203: attempt < this.retryAttempts, attempt counting the rounds so far
MoreAttempts(c) == c.attempt < opts[c.key].retryAttempts

\* lines 230-234, then the loop's next round (204-210) or the code after the loop:
\* the catch of the error with message msg
Caught(p, msg) ==
    LET c == [calls[p] EXCEPT !.lastError = msg, !.attempt = @ + 1]
    IN  IF MoreAttempts(c) THEN
            \E jitter \in Jitters :
                /\ calls' = [calls EXCEPT ![p] =
                       [c EXCEPT !.pc = "sleeping", !.sleeps = @ + 1,
                                 !.delay = getBackoffDelay(opts[c.key].retryCooldown,
                                                           c.attempt - 1, jitter)]]
                /\ state' = state
        ELSE AfterLastAttempt(p, c)

\* line 213: fetchData rejected with message msg
AttemptFails(p, msg) ==
    /\ calls[p].pc = "fetching"
    /\ \/ calls[p].key \in env.sources
       \/ calls[p].key \in env.down /\ msg = DownMsg
    /\ msg \in Msgs
    /\ Caught(p, msg)
    /\ UNCHANGED <<now, env, opts, today, agg>>

\* the messages of the errors mapToDashboard throws
TransformMsgs == {"t1"}

\* the transform throwing after the entry was written: setCache before line 216
TransformFails_CachesFirst(p, msg) ==
    /\ calls[p].pc = "fetching"
    /\ calls[p].key \in env.sources
    /\ msg \in TransformMsgs
    /\ LET c == [calls[p] EXCEPT !.lastError = msg, !.attempt = @ + 1]
           st1 == setCache(state, c.key, UsualData(c.key), c.cacheSignature, now)
       IN  IF MoreAttempts(c) THEN
               /\ calls' = [calls EXCEPT ![p] =
                      [c EXCEPT !.pc = "sleeping", !.sleeps = @ + 1,
                                !.delay = getBackoffDelay(opts[c.key].retryCooldown,
                                                          c.attempt - 1, 0)]]
               /\ state' = st1
           ELSE AfterLastAttempt(p, c)
    /\ UNCHANGED <<now, env, opts, today, agg>>

\* lines 213-216: fetchData resolved, and mapToDashboard threw an error with message
\* msg on the payload
TransformFails(p, msg) ==
    /\ calls[p].pc = "fetching"
    /\ calls[p].key \in env.sources
    /\ msg \in TransformMsgs
    /\ Caught(p, msg)
    /\ UNCHANGED <<now, env, opts, today, agg>>

\* line 209: the sleep is over
SleepDone(p) ==
    /\ calls[p].pc = "sleeping"
    /\ calls' = [calls EXCEPT ![p] = StartFetch(calls[p])]
    /\ UNCHANGED <<now, env, opts, state, today, agg>>

----------------------------------------------------------------------------
(* Callers of getData outside the aggregator, and the environment *)

\* a caller makes a new instance and calls getData on it
GetData(p, k) ==
    /\ calls[p].pc \in {"idle", "done"}
    /\ GetDataFrom(p, k, state)
    /\ UNCHANGED <<now, env, opts, today, agg>>

\* app/api/test-service/route.ts with fresh=true: refuse a disabled service, clear
\* its cache, then getData
TestServiceFresh(p, k) ==
    /\ calls[p].pc \in {"idle", "done"}
    /\ isEnabled(k)
    /\ GetDataFrom(p, k, clearCache(state, k))
    /\ UNCHANGED <<now, env, opts, today, agg>>

\* the environment is observed between calls and during the calls of env.sources
Observed ==
    \A p \in DOMAIN calls :
        calls[p].pc \in {"fetching", "sleeping"} => calls[p].key \in env.sources

\* a getData call of the run is over and the run goes on at once
Resuming == agg # Absent /\ agg.pc \notin {"idle", "done"} /\ calls[1].pc = "done"

\* the clock advances, and the date with it at midnight
Tick ==
    /\ ~Resuming
    /\ Observed
    /\ now < MaxTime
    /\ now' = now + 1
    /\ today' = IF (now + 1) % DayLen = 0 THEN today + 1 ELSE today
    /\ UNCHANGED <<env, opts, state, calls, agg>>

\* credentials are added or removed
SetEnabled(k) ==
    /\ ~Resuming
    /\ Observed
    /\ env' = [env EXCEPT !.enabled[k] = ~@]
    /\ UNCHANGED <<now, opts, state, calls, today, agg>>

\* the configured locations change; a call in flight has read them already
SetLocations(l) ==
    /\ WEATHER \in env.sources
    /\ \A p \in DOMAIN calls : calls[p].pc \in {"idle", "done"}
    /\ agg # Absent => agg.pc \in {"idle", "done"}
    /\ l \in Locations
    /\ l # env.locations
    /\ env' = [env EXCEPT !.locations = l]
    /\ UNCHANGED <<now, opts, state, calls, today, agg>>

----------------------------------------------------------------------------
(* lib/weatherUtils.ts: buildStaticDescription *)

\* deriveThresholds()
thresholds ==
    [coldMorning |-> 10, warmMorning |-> 21, warmAfternoon |-> 21, hotAfternoon |-> 29,
     coolAfternoon |-> 15, coolEvening |-> 15, coldNight |-> 10, warmNight |-> 21,
     hotNight |-> 29, extremeHeat |-> 38, bigSwing |-> 8, largeWarmup |-> 7,
     largeDrop |-> 6, rainChance |-> 40]

\* the morning beginning after 5 o'clock
getTimeContext_LateMorning(hour) ==
    IF hour > 5 /\ hour < 11 THEN "morning"
    ELSE IF hour >= 11 /\ hour < 16 THEN "afternoon"
    ELSE IF hour >= 16 /\ hour < 20 THEN "evening"
    ELSE "night"

\* getTimeContext(hour).period
getTimeContext(hour) ==
    IF hour >= 5 /\ hour < 11 THEN "morning"
    ELSE IF hour >= 11 /\ hour < 16 THEN "afternoon"
    ELSE IF hour >= 16 /\ hour < 20 THEN "evening"
    ELSE "night"

\* The weather conditions an upstream reports, and description.toLowerCase()
Conditions == {"Clear", "Sunny", "Partly cloudy", "Overcast", "Fog", "Light rain"}
toLowerCase(c) ==
    CASE c = "Clear" -> "clear"
      [] c = "Sunny" -> "sunny"
      [] c = "Partly cloudy" -> "partly cloudy"
      [] c = "Overcast" -> "overcast"
      [] c = "Fog" -> "fog"
      [] c = "Light rain" -> "light rain"

\* the words of the regular expressions that occur in a lower-case condition
WordsIn(condition) ==
    CASE condition = "clear" -> {"clear"}
      [] condition = "sunny" -> {"sunny"}
      [] condition = "partly cloudy" -> {"cloud"}
      [] condition = "overcast" -> {"overcast"}
      [] condition = "fog" -> {"fog"}
      [] condition = "light rain" -> {"rain"}

\* /a|b|c/.test(condition)
Test(words, condition) == WordsIn(condition) \cap words # {}

\* x ?? d on numbers
Coalesce(x, d) == IF x = NullNum THEN d ELSE x

\* the first n elements of a sequence: seq.slice(0, n)
Slice(seq, n) == SubSeq(seq, 1, Min(n, Len(seq)))

MaxOf(S) == CHOOSE x \in S : \A y \in S : y <= x
MinOf(S) == CHOOSE x \in S : \A y \in S : x <= y

\* forecast?.[i] || {}, i counted from 0
ForecastDay(forecast, i) ==
    IF i + 1 <= Len(forecast) THEN forecast[i + 1]
    ELSE [high |-> NullNum, low |-> NullNum, rain_chance |-> NullNum]

buildMorningSummary(currentTemp, highTemp, condition, isRainy, hasBigSwing, tempRange) ==
    LET isCold == currentTemp < thresholds.coldMorning
        isWarm == currentTemp >= thresholds.warmMorning
        willWarmUp == highTemp - currentTemp >= thresholds.largeWarmup
    IN  IF isRainy THEN
            IF isCold
            THEN <<"Chilly and rainy morning, staying wet and cool throughout the day">>
            ELSE <<"Rainy start continuing through the day, stay dry and cozy inside">>
        ELSE IF hasBigSwing /\ willWarmUp THEN
            IF Test({"fog", "mist"}, condition)
            THEN <<"Cool and foggy this morning, clearing to warmer skies by afternoon">>
            ELSE <<"Cool start warming up fast, pleasant ", ToString(tempRange),
                   " degrees swing by afternoon">>
        ELSE IF isCold THEN
            IF Test({"cloud", "overcast"}, condition)
            THEN <<"Chilly and cloudy morning, staying fairly cool throughout the day">>
            ELSE <<"Crisp cool morning, staying on the cooler side all day long">>
        ELSE IF isWarm THEN
            IF highTemp >= thresholds.extremeHeat
            THEN <<"Extreme heat warning today, temperatures soaring to dangerous levels">>
            ELSE <<"Warm start to a beautiful day, staying sunny and pleasant throughout">>
        ELSE
            IF Test({"cloud"}, condition)
            THEN <<"Mild and cloudy morning, comfortable temperatures all day long">>
            ELSE <<"Pleasant morning with comfortable temps, nice conditions all day">>

buildAfternoonSummary(currentTemp, condition, isRainy) ==
    LET isHot == currentTemp >= thresholds.hotAfternoon
        isWarm == currentTemp >= thresholds.warmAfternoon
        isCool == currentTemp < thresholds.coolAfternoon
    IN  IF isRainy
        THEN <<"Rainy afternoon continuing into evening, staying wet and overcast">>
        ELSE IF isHot THEN
            IF currentTemp >= thresholds.extremeHeat
            THEN <<"Extreme heat alert this afternoon, stay hydrated and keep in the shade">>
            ELSE <<"Hot afternoon continuing, staying warm as we head into the evening">>
        ELSE IF isWarm THEN
            IF Test({"clear", "sunny"}, condition)
            THEN <<"Beautiful sunny afternoon, staying pleasant as the day winds down">>
            ELSE <<"Mild and comfortable afternoon, nice conditions into the evening">>
        ELSE IF isCool
        THEN <<"Cool and comfortable afternoon, staying on the cooler side tonight">>
        ELSE <<"Pleasant afternoon temperatures, comfortable conditions into evening">>

buildEveningSummary(currentTemp, lowTemp, condition, isRainy) ==
    LET isCool == currentTemp < thresholds.coolEvening
        willCoolDown == currentTemp - lowTemp >= thresholds.largeDrop
    IN  IF isRainy
        THEN <<"Rainy evening ahead, staying wet and cool as the night sets in">>
        ELSE IF willCoolDown THEN
            IF isCool
            THEN <<"Cool evening getting chillier, bundle up as temperatures drop tonight">>
            ELSE <<"Mild now but cooling down, grab a jacket as the evening progresses">>
        ELSE IF isCool THEN
            IF Test({"clear"}, condition)
            THEN <<"Cool and clear evening, staying crisp with nice skies through tonight">>
            ELSE <<"Cool evening settling in, staying on the chilly side through the night">>
        ELSE
            IF Test({"clear"}, condition)
            THEN <<"Pleasant evening with clear skies, comfortable conditions tonight">>
            ELSE <<"Mild and comfortable evening, nice conditions as the night sets in">>

buildNightSummary(tomorrowHigh, tomorrowLow, condition, isRainy) ==
    LET willBeCold == tomorrowLow < thresholds.coldNight
        willBeHot == tomorrowHigh >= thresholds.hotNight
        willBeWarm == tomorrowHigh >= thresholds.warmNight
    IN  IF isRainy THEN
            IF willBeCold
            THEN <<"Tomorrow rainy and cool, expect wet conditions and chilly temperatures">>
            ELSE <<"Tomorrow bringing rain and clouds, stay dry with umbrella and layers">>
        ELSE IF willBeHot THEN
            IF tomorrowHigh >= thresholds.extremeHeat
            THEN <<"Dangerously hot tomorrow, prepare for extreme heat and stay inside">>
            ELSE <<"Tomorrow heating up nicely, expect warm sunny skies and hot temperatures">>
        ELSE IF willBeWarm THEN
            IF Test({"fog", "mist"}, condition)
            THEN <<"Tomorrow foggy start clearing out, warming to pleasant afternoon temps">>
            ELSE <<"Tomorrow pleasant and mild, comfortable temperatures throughout the day">>
        ELSE IF willBeCold THEN
            IF Test({"cloud"}, condition)
            THEN <<"Tomorrow cool and cloudy, staying on the chilly side all day long">>
            ELSE <<"Tomorrow crisp and cool, bundle up for chilly temperatures ahead">>
        ELSE <<"Tomorrow comfortable and mild, nice conditions throughout the day ahead">>

\* buildStaticDescription(weatherData).daily_summary at local hour `hour`
buildStaticDescription(weatherData, hour) ==
    LET period == getTimeContext(hour)
        \* weatherData.current || {}
        current == IF weatherData.current = Absent
                   THEN [temp |-> NullNum, description |-> NULL]
                   ELSE weatherData.current
        hourlyForecast == weatherData.hourlyForecast
        todayForecast == ForecastDay(weatherData.forecast, 0)
        tomorrowForecast == ForecastDay(weatherData.forecast, 1)
        currentTemp == Coalesce(current.temp, 20)
        highTemp == Coalesce(todayForecast.high, 20)
        lowTemp == Coalesce(todayForecast.low, 15)
        condition == toLowerCase(OrStr(current.description, "Clear"))
        first6 == Slice(hourlyForecast, 6)
        maxRainChance ==
            MaxOf({OrNum(todayForecast.rain_chance, 0)}
                  \cup {OrNum(first6[i].rain_chance, 0) : i \in DOMAIN first6})
        isRainy == maxRainChance > thresholds.rainChance
                   \/ Test({"rain", "shower", "drizzle"}, condition)
        first8 == Slice(hourlyForecast, 8)
        hourlyTemps == {Coalesce(first8[i].temp, 20) : i \in DOMAIN first8}
        tempRange == IF Len(first8) > 0 THEN MaxOf(hourlyTemps) - MinOf(hourlyTemps)
                     ELSE highTemp - lowTemp
        hasBigSwing == tempRange >= thresholds.bigSwing
    IN  IF period = "morning" THEN
            buildMorningSummary(currentTemp, highTemp, condition, isRainy, hasBigSwing,
                                tempRange)
        ELSE IF period = "afternoon" THEN
            buildAfternoonSummary(currentTemp, condition, isRainy)
        ELSE IF period = "evening" THEN
            buildEveningSummary(currentTemp, lowTemp, condition, isRainy)
        ELSE
            buildNightSummary(Coalesce(tomorrowForecast.high, 20),
                              Coalesce(tomorrowForecast.low, 15), condition, isRainy)

----------------------------------------------------------------------------
(* lib/dataBuilder.ts: computeTempComparison *)

\* the n oldest dates: the sort without the reverse
LatestDates_Oldest(dates, n) ==
    {d \in dates : Cardinality({e \in dates : e < d}) < n}

\* the dates of dailyHighs, latest first, at most n of them
RECURSIVE LatestDates(_, _)
LatestDates(dates, n) ==
    IF n = 0 \/ dates = {} THEN {}
    ELSE LET d == CHOOSE x \in dates : \A y \in dates : y <= x
         IN  {d} \cup LatestDates(dates \ {d}, n - 1)

\* dailyHighs[date] with a missing high read as 0
HighOn_ZeroDefault(dailyHighs, date) ==
    IF date \in DOMAIN dailyHighs THEN dailyHighs[date] ELSE 0

\* dailyHighs[date], undefined being NullNum
HighOn(dailyHighs, date) ==
    IF date \in DOMAIN dailyHighs THEN dailyHighs[date] ELSE NullNum

\* "much warmer" only beyond the strong threshold
Classify_StrictWarmer(todayHigh, yesterdayHigh) ==
    LET diff == todayHigh - yesterdayHigh
        threshold == 1
        strongThreshold == 6
        abs == IF diff < 0 THEN 0 - diff ELSE diff
    IN  IF abs < threshold THEN "Same as yesterday"
        ELSE IF diff > strongThreshold THEN "Much warmer than yesterday"
        ELSE IF diff > 0 THEN "Warmer than yesterday"
        ELSE IF diff <= 0 - strongThreshold THEN "Much cooler than yesterday"
        ELSE "Cooler than yesterday"

\* lines 288-303: the classification of today's high against yesterday's
Classify(todayHigh, yesterdayHigh) ==
    LET diff == todayHigh - yesterdayHigh
        threshold == 1
        strongThreshold == 6
        abs == IF diff < 0 THEN 0 - diff ELSE diff
    IN  IF abs < threshold THEN "Same as yesterday"
        ELSE IF diff >= strongThreshold THEN "Much warmer than yesterday"
        ELSE IF diff > 0 THEN "Warmer than yesterday"
        ELSE IF diff <= 0 - strongThreshold THEN "Much cooler than yesterday"
        ELSE "Cooler than yesterday"

\* computeTempComparison(todayHigh) on date day: the result and the document after it
computeTempComparison(st, todayHigh, day) ==
    IF todayHigh = NullNum THEN [value |-> NULL, st |-> st]
    ELSE
        LET dailyHighs == getStateKey(st, "daily_highs")
            yesterday == day - 1
        IN  IF OrNum(HighOn(dailyHighs, day), NullNum) = NullNum THEN
                LET stored == [d \in DOMAIN dailyHighs \cup {day} |->
                                  IF d = day THEN todayHigh ELSE dailyHighs[d]]
                    recentDates == LatestDates(DOMAIN stored, 3)
                    trimmedHighs == [d \in recentDates |-> stored[d]]
                IN  [value |-> NULL, st |-> setStateKey(st, "daily_highs", trimmedHighs)]
            ELSE IF HighOn(dailyHighs, yesterday) = NullNum THEN
                [value |-> NULL, st |-> st]
            ELSE
                [value |-> Classify(todayHigh, HighOn(dailyHighs, yesterday)), st |-> st]

----------------------------------------------------------------------------
(* lib/dataBuilder.ts: buildDashboardData, in its two versions: with the weather,   *)
(* calendar and LLM services ("three"), and with the weather, calendar, news and    *)
(* markets services ("four"). The run uses call slot 1 for its getData calls, one   *)
(* after the other.                                                                 *)

\* new Date().getHours(): one hour of each period of the day
Hours == {8, 13, 18, 23}

\* string.trim()
RECURSIVE trimStart(_)
trimStart(t) == IF t # <<>> /\ Head(t) = " " THEN trimStart(Tail(t)) ELSE t
RECURSIVE trimEnd(_)
trimEnd(t) == IF t # <<>> /\ t[Len(t)] = " " THEN trimEnd(SubSeq(t, 1, Len(t) - 1)) ELSE t
trim(t) == trimEnd(trimStart(t))

\* a string is truthy: neither undefined nor empty
IsTruthyText(t) == t # Undefined /\ t # <<>>

\* the locals of a run before anything is assigned
NewRun(variant) ==
    [variant |-> variant, runs |-> 0, pc |-> "weather", weatherData |-> NullData,
     weatherStatus |-> Absent, calendar_events |-> <<>>, calendarStatus |-> Absent,
     news_summary |-> <<>>, newsStatus |-> Absent, temp_comparison |-> NULL,
     outcome |-> Absent]

\* the run is over: its locals are gone, its result or its error is left
Finished(run, outcome) ==
    [NewRun(run.variant) EXCEPT !.runs = run.runs, !.pc = "done", !.outcome = outcome]

\* buildCurrentFromWeather(mainLocation, ...): temp and description
buildCurrentFromWeather(location) ==
    [temp |-> IF location.current_temp = NullNum THEN 0 ELSE location.current_temp,
     description |-> OrStr(location.condition, "Clear")]

\* the argument of buildStaticDescription
StaticInput(weatherData) ==
    [current |-> buildCurrentFromWeather(weatherData),
     forecast |-> weatherData.forecast,
     hourlyForecast |-> weatherData.hourlyForecast]

\* the message of the error without the prefix of line 66
WeatherUnavailable_Bare(message) == <<message>>

\* line 66: `Weather API unavailable: ${err.message}`
WeatherUnavailable(message) == <<"Weather API unavailable: ", message>>

\* the status of a source whose catch block reads it from a new instance's fields
StatusAfter_Unloaded(c) ==
    IF c.outcome.kind = "returned" THEN c.outcome.status
    ELSE [isEnabled |-> isEnabled(c.key), state |-> InitialStatus.state,
          cacheTTL |-> opts[c.key].cacheTTL, fetchedAt |-> NullNum,
          latency |-> InitialStatus.latency, error |-> InitialStatus.error]

\* the status without the getStatus() of the catch block
StatusAfter_OnlyReturned(c) ==
    IF c.outcome.kind = "returned" THEN c.outcome.status ELSE Absent

\* the status of an optional source after its getData: result.status, or in the
\* catch block service.getStatus()
StatusAfter(c) ==
    IF c.outcome.kind = "returned" THEN c.outcome.status
    ELSE getStatus(state, c.key, c.status)

\* lines 47-60: the services are made and the weather is asked for
AggStart ==
    /\ agg.pc \in {"idle", "done"}
    /\ agg.runs < MaxRuns
    /\ calls[1].pc \in {"idle", "done"}
    /\ agg' = [NewRun(agg.variant) EXCEPT !.runs = agg.runs + 1]
    /\ GetDataFrom(1, WEATHER, state)
    /\ UNCHANGED <<now, env, opts, today>>

\* AggAfterWeather without the throw of line 66: the run goes on to the calendar
AggAfterWeather_GoesOn ==
    /\ agg.pc = "weather"
    /\ calls[1].pc = "done"
    /\ LET r == calls[1].outcome IN
       IF r.kind = "thrown" THEN
           /\ agg' = [agg EXCEPT !.pc = "calendar"]
           /\ GetDataFrom(1, CALENDAR, state)
       ELSE IF r.data = NullData THEN
           /\ agg' = Finished(agg, [kind |-> "thrown", name |-> "TypeError",
                                    message |-> <<"Cannot read properties of null">>])
           /\ UNCHANGED <<state, calls>>
       ELSE
           /\ agg' = [agg EXCEPT !.pc = "calendar", !.weatherData = r.data,
                                 !.weatherStatus = r.status]
           /\ GetDataFrom(1, CALENDAR, state)
    /\ UNCHANGED <<now, env, opts, today>>

\* lines 61-90: the weather call is over; on its data, the calendar is asked for
AggAfterWeather ==
    /\ agg.pc = "weather"
    /\ calls[1].pc = "done"
    /\ LET r == calls[1].outcome IN
       IF r.kind = "thrown" THEN
           /\ agg' = Finished(agg, [kind |-> "thrown", name |-> "Error",
                                    message |-> WeatherUnavailable(r.message)])
           /\ UNCHANGED <<state, calls>>
       ELSE IF r.data = NullData THEN
           \* line 72: weatherData.locations[0] on null
           /\ agg' = Finished(agg, [kind |-> "thrown", name |-> "TypeError",
                                    message |-> <<"Cannot read properties of null">>])
           /\ UNCHANGED <<state, calls>>
       ELSE
           /\ agg' = [agg EXCEPT !.pc = "calendar", !.weatherData = r.data,
                                 !.weatherStatus = r.status]
           /\ GetDataFrom(1, CALENDAR, state)
    /\ UNCHANGED <<now, env, opts, today>>

\* lines 91-150 ("three"): the calendar call is over; the temperature comparison is
\* computed and the LLM is asked for. In "four" (lines 94-106) the news is asked for.
AggAfterCalendar ==
    /\ agg.pc = "calendar"
    /\ calls[1].pc = "done"
    /\ LET r == calls[1].outcome
           events == IF r.kind = "returned" /\ r.data # NullData THEN r.data.events
                     ELSE <<>>
           run == [agg EXCEPT !.calendar_events = events,
                              !.calendarStatus = StatusAfter(calls[1])]
           tc == computeTempComparison(state, agg.weatherData.high, today)
       IN  IF agg.variant = "three" THEN
               /\ agg' = [run EXCEPT !.pc = "llm", !.temp_comparison = tc.value]
               /\ GetDataFrom(1, LLM, tc.st)
           ELSE
               /\ agg' = [run EXCEPT !.pc = "news"]
               /\ GetDataFrom(1, NEWS, state)
    /\ UNCHANGED <<now, env, opts, today>>

\* the fallbacks without lines 169-179: the static description at once
SummaryFallback_StaticFirst(weatherData, hour) ==
    [daily_summary |-> buildStaticDescription(StaticInput(weatherData), hour),
     llm_source |-> "static_fallback"]

\* the fallbacks with the cached summary tagged as the static description
SummaryFallback_Mislabelled(weatherData, hour) ==
    LET staleCache == getCache(state, LLM, TRUE, NULL, now, opts[LLM].cacheTTL) IN
    IF staleCache # NullData /\ IsTruthyText(staleCache.daily_summary)
    THEN [daily_summary |-> trim(staleCache.daily_summary),
          llm_source |-> "static_fallback"]
    ELSE [daily_summary |-> buildStaticDescription(StaticInput(weatherData), hour),
          llm_source |-> "static_fallback"]

\* lines 166-193: no valid insights; the LLM cache whatever its age, else the static
\* description
SummaryFallback(weatherData, hour) ==
    LET staleCache == getCache(state, LLM, TRUE, NULL, now, opts[LLM].cacheTTL) IN
    IF staleCache # NullData /\ IsTruthyText(staleCache.daily_summary)
    THEN [daily_summary |-> trim(staleCache.daily_summary), llm_source |-> "stale_cache"]
    ELSE [daily_summary |-> buildStaticDescription(StaticInput(weatherData), hour),
          llm_source |-> "static_fallback"]

\* lines 151-203: the LLM call is over; the summary is chosen and the snapshot returned
AggAfterLLM ==
    /\ agg.pc = "llm"
    /\ calls[1].pc = "done"
    /\ \E hour \in Hours :
        LET r == calls[1].outcome
            insights == IF r.kind = "returned" THEN r.data ELSE NullData
            hasValidInsights == /\ insights # NullData
                                /\ IsTruthyText(insights.daily_summary)
                                /\ Len(trim(insights.daily_summary)) > 0
            summary == IF hasValidInsights
                       THEN [daily_summary |-> trim(insights.daily_summary),
                             llm_source |-> r.source]
                       ELSE SummaryFallback(agg.weatherData, hour)
        IN  agg' = Finished(agg,
                [kind |-> "returned",
                 daily_summary |-> summary.daily_summary,
                 llm_source |-> summary.llm_source,
                 calendar_events |-> agg.calendar_events,
                 temp_comparison |-> agg.temp_comparison,
                 serviceStatuses |-> [weather |-> agg.weatherStatus,
                                      llm |-> StatusAfter(calls[1]),
                                      calendar |-> agg.calendarStatus]])
    /\ UNCHANGED <<now, env, opts, state, calls, today>>

\* "four", lines 107-124: the news call is over; the markets are asked for
AggAfterNews ==
    /\ agg.pc = "news"
    /\ calls[1].pc = "done"
    /\ LET r == calls[1].outcome
           newsData == IF r.kind = "returned" THEN r.data ELSE NullData
           news_summary == IF newsData # NullData /\ IsTruthyText(newsData.summary)
                           THEN newsData.summary ELSE <<>>
       IN  agg' = [agg EXCEPT !.pc = "markets", !.news_summary = news_summary,
                              !.newsStatus = StatusAfter(calls[1])]
    /\ GetDataFrom(1, MARKETS, state)
    /\ UNCHANGED <<now, env, opts, today>>

\* "four", lines 125-205: the markets call is over; the temperature comparison, the
\* summary of the weather service or the static description, and the snapshot
AggAfterMarkets ==
    /\ agg.pc = "markets"
    /\ calls[1].pc = "done"
    /\ \E hour \in Hours :
        LET r == calls[1].outcome
            markets == IF r.kind = "returned" THEN r.data ELSE NullData
            tc == computeTempComparison(state, agg.weatherData.high, today)
            ai == agg.weatherData.daily_summary
            useAI == IsTruthyText(ai) /\ Len(trim(ai)) > 0
        IN  /\ state' = tc.st
            /\ agg' = Finished(agg,
                [kind |-> "returned",
                 daily_summary |-> IF useAI THEN trim(ai)
                     ELSE buildStaticDescription(StaticInput(agg.weatherData), hour),
                 weather_summary_source |-> IF useAI THEN "ai" ELSE "static_fallback",
                 calendar_events |-> agg.calendar_events,
                 news_summary |-> agg.news_summary,
                 markets |-> markets,
                 temp_comparison |-> tc.value,
                 serviceStatuses |-> [weather |-> agg.weatherStatus,
                                      calendar |-> agg.calendarStatus,
                                      news |-> agg.newsStatus,
                                      markets |-> StatusAfter(calls[1])]])
    /\ UNCHANGED <<now, env, opts, calls, today>>

\* the sources of each version of the aggregator
AggSources(variant) ==
    IF variant = "three" THEN {WEATHER, CALENDAR, LLM}
    ELSE {WEATHER, CALENDAR, NEWS, MARKETS}

\* One source is under study, its upstream and its credentials vary: the weather
\* with the other upstreams working, or an optional source with any of the other
\* optional upstreams down
InitAgg ==
    /\ now = StartTime
    /\ \E variant \in {"three", "four"} :
        /\ \E k \in AggSources(variant) :
           \E down \in SUBSET (AggSources(variant) \ {k, WEATHER}) :
               /\ k = WEATHER => down = {}
               /\ env = [sources |-> {k}, down |-> down,
                         enabled |-> [j \in AllKeys |-> TRUE], locations |-> "locA", io |-> IoWorks]
        /\ agg = [NewRun(variant) EXCEPT !.pc = "idle"]
    /\ opts = [k \in AllKeys |-> Constructor(ServiceOptions(k))]
    /\ state = EmptyState
    /\ calls = [p \in {1} |-> IdleCall]
    /\ today = FirstDay

NextAgg ==
    \/ AggStart
    \/ AggAfterWeather
    \/ AggAfterCalendar
    \/ AggAfterLLM
    \/ AggAfterNews
    \/ AggAfterMarkets
    \/ \E p \in DOMAIN calls, k \in AllKeys : \E d \in ApiData(k) : FetchSucceeds(p, d)
    \/ \E p \in DOMAIN calls, msg \in Msgs : AttemptFails(p, msg)
    \/ \E p \in DOMAIN calls : SleepDone(p)
    \/ Tick
    \/ \E k \in env.sources : SetEnabled(k)
    \/ \E l \in Locations : SetLocations(l)

SpecAgg == InitAgg /\ [][NextAgg]_vars

----------------------------------------------------------------------------
(* Specification of the resilient source: calls on two of the services *)

SourceKeys == {WEATHER, CALENDAR}

Init ==
    /\ now = StartTime
    /\ \E k \in SourceKeys :
           env = [sources |-> {k}, down |-> {},
                  enabled |-> [j \in AllKeys |-> TRUE], locations |-> "locA", io |-> IoWorks]
    /\ opts = [k \in AllKeys |-> Constructor(ServiceOptions(k))]
    /\ state = EmptyState
    /\ calls = [p \in {1} |-> IdleCall]
    /\ today = FirstDay
    /\ agg = Absent

Next ==
    \/ \E p \in DOMAIN calls, k \in env.sources : GetData(p, k)
    \/ \E p \in DOMAIN calls, k \in env.sources : TestServiceFresh(p, k)
    \/ \E p \in DOMAIN calls, k \in AllKeys : \E d \in ApiData(k) : FetchSucceeds(p, d)
    \/ \E p \in DOMAIN calls, msg \in Msgs : AttemptFails(p, msg)
    \/ \E p \in DOMAIN calls : SleepDone(p)
    \/ Tick
    \/ \E k \in env.sources : SetEnabled(k)
    \/ \E l \in Locations : SetLocations(l)

Spec == Init /\ [][Next]_vars

----------------------------------------------------------------------------
(* Specification of the retry loop: a service made with any retry options *)

\* retryCooldown of the services (300, 1000, 2000) and one beyond the ceiling
Cooldowns == {300, 1000, 2000, 12000}

InitBackoff ==
    /\ now = StartTime
    /\ \E k \in SourceKeys :
           env = [sources |-> {k}, down |-> {},
                  enabled |-> [j \in AllKeys |-> TRUE], locations |-> "locA", io |-> IoWorks]
    /\ \E retryCooldown \in Cooldowns, retryAttempts \in {NullNum} \cup 0..MaxAttempts :
           opts = [k \in AllKeys |->
                      Constructor([ServiceOptions(k) EXCEPT
                                      !.retryCooldown = retryCooldown,
                                      !.retryAttempts = retryAttempts])]
    /\ state = EmptyState
    /\ calls = [p \in {1} |-> IdleCall]
    /\ today = FirstDay
    /\ agg = Absent

NextBackoff ==
    \/ \E p \in DOMAIN calls, k \in env.sources : GetData(p, k)
    \/ \E p \in DOMAIN calls, k \in AllKeys : \E d \in ApiData(k) : FetchSucceeds(p, d)
    \/ \E p \in DOMAIN calls, msg \in Msgs : AttemptFails(p, msg)
    \/ \E p \in DOMAIN calls : SleepDone(p)
    \/ Tick

SpecBackoff == InitBackoff /\ [][NextBackoff]_vars

----------------------------------------------------------------------------
(* Specification of two callers: two getData calls on a source may overlap, each *)
(* on an instance of its own (a request handler per call)                        *)

InitTwo ==
    /\ now = StartTime
    /\ env = [sources |-> {CALENDAR}, down |-> {},
              enabled |-> [j \in AllKeys |-> TRUE], locations |-> "locA", io |-> IoWorks]
    /\ opts = [k \in AllKeys |-> Constructor(ServiceOptions(k))]
    /\ state = EmptyState
    /\ calls = [p \in {1, 2} |-> IdleCall]
    /\ today = FirstDay
    /\ agg = Absent

NextTwo ==
    \/ \E p \in DOMAIN calls, k \in env.sources : GetData(p, k)
    \/ \E p \in DOMAIN calls, k \in env.sources : TestServiceFresh(p, k)
    \/ \E p \in DOMAIN calls, k \in AllKeys : \E d \in ApiData(k) : FetchSucceeds(p, d)
    \/ \E p \in DOMAIN calls, msg \in Msgs : AttemptFails(p, msg)
    \/ \E p \in DOMAIN calls : SleepDone(p)
    \/ Tick

SpecTwo == InitTwo /\ [][NextTwo]_vars

----------------------------------------------------------------------------
(* Properties of getData *)

CacheOf(k) == state.service_cache[k]
StatusOf(k) == state.service_status[k]

\* the step in which the last of the retryAttempts attempts of call p fails
LastAttemptFailed(p) ==
    /\ calls[p].pc = "fetching"
    /\ calls'[p].pc = "done"
    /\ calls'[p].attempt = opts[calls[p].key].retryAttempts

\* the entry of k is usable under signature sig: it exists and its signature matches
EntryMatches(k, sig) ==
    /\ CacheOf(k) # Absent
    /\ sig = NULL \/ CacheOf(k).signature = sig

\* the entry of k is fresh now
EntryFresh(k) ==
    /\ CacheOf(k) # Absent
    /\ now - CacheOf(k).fetchedAt < opts[k].cacheTTL

\* C1: when the last attempt of a call fails and a cache entry of the source exists
\* whose signature matches the call's (or the call's signature is null), the call
\* returns that entry's data with source stale_cache, state degraded and the last
\* failure's message as status.error, and does not throw.
C1_StaleFallback ==
    [][\A p \in DOMAIN calls :
        LastAttemptFailed(p) /\ EntryMatches(calls[p].key, calls[p].cacheSignature)
        => /\ calls'[p].outcome.kind = "returned"
           /\ calls'[p].outcome.source = "stale_cache"
           /\ calls'[p].outcome.data = CacheOf(calls[p].key).data
           /\ calls'[p].outcome.status.state = "degraded"
           /\ calls'[p].outcome.status.error = calls'[p].lastError
           /\ calls'[p].lastError \in Msgs]_vars

C1_Witness ==
    \E p \in DOMAIN calls :
        /\ calls[p].pc = "done"
        /\ calls[p].attempt = opts[calls[p].key].retryAttempts
        /\ calls[p].outcome.kind = "returned"
        /\ calls[p].outcome.source = "stale_cache"
        /\ now - CacheOf(calls[p].key).fetchedAt >= opts[calls[p].key].cacheTTL

\* C2: when the last attempt of a call fails and the source has no cache entry at
\* all, the call throws the last error, and the persisted status of the source is
\* then unhealthy with latency null and the last failure's message as error.
C2_HardFailure ==
    [][\A p \in DOMAIN calls :
        LastAttemptFailed(p) /\ CacheOf(calls[p].key) = Absent
        => /\ calls'[p].outcome.kind = "thrown"
           /\ calls'[p].outcome.message = calls'[p].lastError
           /\ calls'[p].lastError \in Msgs
           /\ state'.service_status[calls[p].key] =
                  [state |-> "unhealthy", latency |-> NullNum,
                   error |-> calls'[p].lastError]]_vars

C2_Witness ==
    \E p \in DOMAIN calls :
        /\ calls[p].pc = "done"
        /\ calls[p].outcome.kind = "thrown"
        /\ CacheOf(calls[p].key) = Absent
        /\ StatusOf(calls[p].key).state = "unhealthy"

\* the result of a cache hit on the entry of k
IsCacheHit(c, k) ==
    /\ c.pc = "done"
    /\ c.outcome.kind = "returned"
    /\ c.outcome.source = "cache"
    /\ c.outcome.data = CacheOf(k).data
    /\ c.fetches = 0

\* C3 as stated: a getData call made while the entry of the source is fresh and its
\* signature is the current one returns source cache with the entry's data and
\* invokes fetchData zero times.
C3_Original ==
    [][\A p \in DOMAIN calls, k \in AllKeys :
        GetData(p, k) /\ EntryFresh(k) /\ EntryMatches(k, getCacheSignature(k))
        => IsCacheHit(calls'[p], k)]_vars

\* C3 amended: the same, for a source that is enabled when the call is made.
C3_CacheHit ==
    [][\A p \in DOMAIN calls, k \in AllKeys :
        GetData(p, k) /\ isEnabled(k) /\ EntryFresh(k)
                      /\ EntryMatches(k, getCacheSignature(k))
        => IsCacheHit(calls'[p], k)]_vars

C3_Witness ==
    \E p \in DOMAIN calls :
        /\ IsCacheHit(calls[p], calls[p].key)
        /\ EntryFresh(calls[p].key)

\* the entry of k exists and carries another signature than the non-null sig
EntryMismatches(k, sig) ==
    /\ CacheOf(k) # Absent
    /\ sig # NULL
    /\ CacheOf(k).signature # sig

\* the step in which a fetch of call p succeeds
FetchSucceeded(p) ==
    /\ calls[p].pc = "fetching"
    /\ calls'[p].pc = "done"
    /\ calls'[p].outcome.kind = "returned"
    /\ calls'[p].outcome.source = "api"

\* a successful fetch replaces the entry by the fetched data under the call's signature
SuccessOverwrites(p) ==
    FetchSucceeded(p) =>
        state'.service_cache[calls[p].key] =
            [data |-> calls'[p].outcome.data, fetchedAt |-> now,
             signature |-> calls[p].cacheSignature]

\* C4 as stated: a getData call whose non-null signature differs from the entry's
\* signature does not answer from the cache, even when the entry is fresh: it invokes
\* fetchData; and a successful fetch overwrites the entry with the new signature.
C4_Original ==
    [][\A p \in DOMAIN calls, k \in AllKeys :
        /\ GetData(p, k) /\ EntryMismatches(k, getCacheSignature(k))
           => calls'[p].pc = "fetching" /\ calls'[p].fetches = 1
        /\ SuccessOverwrites(p)]_vars

\* C4 amended: the same, for a source that is enabled when the call is made.
C4_SignatureChange ==
    [][\A p \in DOMAIN calls, k \in AllKeys :
        /\ GetData(p, k) /\ isEnabled(k) /\ EntryMismatches(k, getCacheSignature(k))
           => calls'[p].pc = "fetching" /\ calls'[p].fetches = 1
        /\ SuccessOverwrites(p)]_vars

C4_Witness ==
    \E p \in DOMAIN calls :
        /\ calls[p].pc = "fetching"
        /\ calls[p].fetches = 1
        /\ EntryFresh(calls[p].key)
        /\ EntryMismatches(calls[p].key, calls[p].cacheSignature)

\* C5: a getData call made while the source is disabled invokes fetchData zero
\* times, returns source disabled with data null, persists state disabled and
\* leaves service_cache unchanged.
C5_Disabled ==
    [][\A p \in DOMAIN calls, k \in AllKeys :
        GetData(p, k) /\ ~env.enabled[k]
        => /\ calls'[p].pc = "done"
           /\ calls'[p].fetches = 0
           /\ calls'[p].outcome.kind = "returned"
           /\ calls'[p].outcome.source = "disabled"
           /\ calls'[p].outcome.data = NullData
           /\ state'.service_status[k].state = "disabled"
           /\ state'.service_cache = state.service_cache]_vars

C5_Witness ==
    \E p \in DOMAIN calls :
        /\ calls[p].pc = "done"
        /\ calls[p].outcome.kind = "returned"
        /\ calls[p].outcome.source = "disabled"
        /\ EntryFresh(calls[p].key)
        /\ StatusOf(calls[p].key).latency # NullNum

----------------------------------------------------------------------------
(* Properties of buildDashboardData *)

\* the getData call the run was waiting for has thrown
CallThrew == calls[1].pc = "done" /\ calls[1].outcome.kind = "thrown"

\* the run is over and returned a snapshot / raised an error
Snapshot == agg.pc = "done" /\ agg.outcome.kind = "returned"
Raised == agg.pc = "done" /\ agg.outcome.kind = "thrown"

\* C6: when the weather source's getData throws, buildDashboardData throws an Error
\* whose message is 'Weather API unavailable: ' followed by the message of the
\* source's error, and no snapshot is returned
C6_RequiredFatal ==
    [][(agg.pc = "weather" /\ CallThrew /\ AggAfterWeather) =>
          /\ agg'.pc = "done"
          /\ agg'.outcome.kind = "thrown"
          /\ agg'.outcome.name = "Error"
          /\ agg'.outcome.message =
                 <<"Weather API unavailable: ", calls[1].outcome.message>>
          /\ calls[1].outcome.message \in Msgs]_vars

\* C6 happens: the weather call threw and the run ended with the error
C6_Witness ==
    /\ Raised
    /\ agg.outcome.name = "Error"
    /\ calls[1].key = WEATHER
    /\ calls[1].outcome.kind = "thrown"
    /\ calls[1].fetches = opts[WEATHER].retryAttempts

\* the steps after a calendar, news or markets call that threw: the run goes on or
\* returns, the field is empty ([] , '' , undefined) and the status is unhealthy
OthersIsolated ==
    /\ (agg.pc = "calendar" /\ AggAfterCalendar) =>
           /\ agg'.pc \in {"llm", "news"}
           /\ agg'.calendar_events = <<>>
           /\ agg'.calendarStatus.state = "unhealthy"
    /\ (agg.pc = "news" /\ AggAfterNews) =>
           /\ agg'.pc = "markets"
           /\ agg'.news_summary = <<>>
           /\ agg'.newsStatus.state = "unhealthy"
    /\ (agg.pc = "markets" /\ AggAfterMarkets) =>
           /\ agg'.outcome.kind = "returned"
           /\ agg'.outcome.markets = NullData
           /\ agg'.outcome.serviceStatuses.markets.state = "unhealthy"

\* the last step of a run hands the fields and statuses of the earlier sources to
\* the snapshot
FieldsCarried ==
    /\ (agg.pc = "llm" /\ AggAfterLLM) =>
           /\ agg'.outcome.kind = "returned"
           /\ agg'.outcome.calendar_events = agg.calendar_events
           /\ agg'.outcome.serviceStatuses.calendar = agg.calendarStatus
    /\ (agg.pc = "markets" /\ AggAfterMarkets) =>
           /\ agg'.outcome.kind = "returned"
           /\ agg'.outcome.calendar_events = agg.calendar_events
           /\ agg'.outcome.news_summary = agg.news_summary
           /\ agg'.outcome.serviceStatuses.calendar = agg.calendarStatus
           /\ agg'.outcome.serviceStatuses.news = agg.newsStatus

\* C7 as stated: after an optional source's getData threw, the run still returns a
\* snapshot, the source's field holds its empty default (for the LLM: an empty
\* daily_summary) and its status in _serviceStatuses is unhealthy
C7_Original ==
    [][/\ FieldsCarried
       /\ CallThrew =>
           /\ OthersIsolated
           /\ (agg.pc = "llm" /\ AggAfterLLM) =>
                  /\ agg'.outcome.kind = "returned"
                  /\ agg'.outcome.serviceStatuses.llm.state = "unhealthy"
                  /\ agg'.outcome.daily_summary = <<>>]_vars

\* C7, amended: after an optional source's getData threw, the run still returns a
\* snapshot and the source's status in _serviceStatuses is unhealthy; calendar_events
\* is [], news_summary is '', markets is undefined; for the LLM, daily_summary is the
\* static description of the weather and llm_source is 'static_fallback'
C7_Isolation ==
    [][/\ FieldsCarried
       /\ CallThrew =>
           /\ OthersIsolated
           /\ (agg.pc = "llm" /\ AggAfterLLM) =>
                  /\ agg'.outcome.kind = "returned"
                  /\ agg'.outcome.serviceStatuses.llm.state = "unhealthy"
                  /\ agg'.outcome.llm_source = "static_fallback"
                  /\ \E hour \in Hours :
                         agg'.outcome.daily_summary =
                             buildStaticDescription(StaticInput(agg.weatherData), hour)]_vars

\* C7 happens: a snapshot returned although the calendar and the LLM both threw
C7_Witness ==
    /\ Snapshot
    /\ agg.variant = "three"
    /\ calls[1].key = LLM
    /\ calls[1].outcome.kind = "thrown"
    /\ agg.outcome.serviceStatuses.llm.state = "unhealthy"
    /\ agg.outcome.serviceStatuses.calendar.state = "unhealthy"
    /\ agg.outcome.calendar_events = <<>>

\* C8: buildDashboardData raises an error only when the weather source's getData
\* threw, and every error it raises carries the 'Weather API unavailable' message
C8_OnlyWeatherFatal ==
    Raised =>
        /\ calls[1].key = WEATHER
        /\ calls[1].outcome.kind = "thrown"
        /\ Head(agg.outcome.message) = "Weather API unavailable: "

\* C8 fails: the weather source is disabled, its getData returned data = null, and
\* the run ended with a TypeError
C8_Witness ==
    /\ Raised
    /\ agg.outcome.name = "TypeError"
    /\ calls[1].key = WEATHER
    /\ calls[1].outcome.kind = "returned"
    /\ calls[1].outcome.source = "disabled"

\* C9: in every snapshot buildDashboardData returns, daily_summary is a non-empty
\* string
C9_SummaryNonEmpty ==
    Snapshot =>
        /\ agg.outcome.daily_summary # Undefined
        /\ agg.outcome.daily_summary # <<>>

\* C9 fails: a snapshot with an empty daily_summary, taken from a cached LLM summary
\* of white space only
C9_Witness ==
    /\ Snapshot
    /\ agg.variant = "three"
    /\ agg.outcome.daily_summary = <<>>
    /\ agg.outcome.llm_source = "stale_cache"
    /\ CacheOf(LLM) # Absent
    /\ CacheOf(LLM).data.daily_summary = <<" ">>

----------------------------------------------------------------------------
(* Properties of the retry loop *)

\* the step in which call p starts the sleep before its next attempt
StartsSleep(p) == calls[p].pc = "fetching" /\ calls'[p].pc = "sleeping"

\* a sleep follows a failed attempt only, and the first attempt follows no sleep
NoSleepBeforeFirst(p) ==
    /\ calls'[p].pc = "sleeping" =>
           /\ calls[p].pc \in {"fetching", "sleeping"}
           /\ calls'[p].attempt >= 1
           /\ calls'[p].sleeps = calls'[p].attempt
    /\ calls'[p].pc = "fetching" => calls'[p].sleeps = calls'[p].fetches - 1
    /\ (calls'[p].pc = "fetching" /\ calls'[p].attempt = 0) => calls'[p].sleeps = 0

\* C10 as stated: the delay of the sleep before retry n >= 1 lies in
\* [retryCooldown*2^(n-1), retryCooldown*2^(n-1)+200] and is at most 10000, and no
\* sleep is taken before the first attempt
C10_Original ==
    [][\A p \in DOMAIN calls :
          /\ NoSleepBeforeFirst(p)
          /\ StartsSleep(p) =>
                 LET n == calls'[p].attempt
                     base == opts[calls[p].key].retryCooldown * 2 ^ (n - 1)
                 IN  /\ n >= 1
                     /\ calls'[p].delay >= base
                     /\ calls'[p].delay <= base + 200
                     /\ calls'[p].delay <= 10000]_vars

\* C10, amended: the delay of the sleep before retry n >= 1 lies in
\* [min(retryCooldown*2^(n-1), 10000), min(retryCooldown*2^(n-1)+200, 10000)], and
\* no sleep is taken before the first attempt
C10_BackoffBound ==
    [][\A p \in DOMAIN calls :
          /\ NoSleepBeforeFirst(p)
          /\ StartsSleep(p) =>
                 LET n == calls'[p].attempt
                     base == opts[calls[p].key].retryCooldown * 2 ^ (n - 1)
                 IN  /\ n >= 1
                     /\ calls'[p].delay >= Min(base, 10000)
                     /\ calls'[p].delay <= Min(base + 200, 10000)]_vars

\* C10 happens: the sleep before the second retry, under the ceiling and with jitter
C10_Witness ==
    \E p \in DOMAIN calls :
        /\ calls[p].pc = "sleeping"
        /\ calls[p].attempt = 2
        /\ calls[p].delay = opts[calls[p].key].retryCooldown * 2 + 199
        /\ calls[p].delay < 10000

----------------------------------------------------------------------------
(* Properties of getData: the order of the fallback chain *)

\* call record c is that of a call answered from the given tier
ReturnedFrom(c, source) ==
    /\ c.pc = "done"
    /\ c.outcome.kind = "returned"
    /\ c.outcome.source = source

\* the step in which call p ends by throwing
Throws(p) ==
    /\ calls[p].pc = "fetching"
    /\ calls'[p].pc = "done"
    /\ calls'[p].outcome.kind = "thrown"

\* every one of the retryAttempts attempts of the call was made and failed
AllAttemptsFailed(c) ==
    /\ c.attempt = opts[c.key].retryAttempts
    /\ c.fetches = opts[c.key].retryAttempts

\* C11: within one getData call on an enabled source, fetchData is invoked only if
\* no fresh signature-matching entry exists, the fresh tier answers only from a
\* fresh matching entry, a stale entry is returned only after retryAttempts attempts
\* have all failed, and the call throws only after all attempts failed and the
\* stale lookup found no matching entry
C11_ChainOrder ==
    [][\A p \in DOMAIN calls :
        /\ \A k \in AllKeys :
               /\ (GetData(p, k) /\ calls'[p].pc = "fetching") =>
                      /\ isEnabled(k)
                      /\ ~(EntryFresh(k) /\ EntryMatches(k, getCacheSignature(k)))
               /\ (GetData(p, k) /\ ReturnedFrom(calls'[p], "cache")) =>
                      /\ EntryFresh(k) /\ EntryMatches(k, getCacheSignature(k))
                      /\ calls'[p].fetches = 0
        /\ calls'[p].pc = "fetching" =>
               calls'[p].fetches <= opts[calls'[p].key].retryAttempts
        /\ (calls[p].pc # "done" /\ ReturnedFrom(calls'[p], "stale_cache")) =>
               /\ calls[p].pc = "fetching"
               /\ AllAttemptsFailed(calls'[p])
               /\ EntryMatches(calls[p].key, calls[p].cacheSignature)
               /\ ~EntryFresh(calls[p].key)
        /\ Throws(p) =>
               /\ AllAttemptsFailed(calls'[p])
               /\ ~EntryMatches(calls[p].key, calls[p].cacheSignature)]_vars

\* C11 happens: a call went through fetch, retries and sleeps and was answered by
\* the stale entry
C11_Witness ==
    \E p \in DOMAIN calls :
        /\ calls[p].pc = "done"
        /\ calls[p].outcome.kind = "returned"
        /\ calls[p].outcome.source = "stale_cache"
        /\ calls[p].fetches = opts[calls[p].key].retryAttempts
        /\ calls[p].sleeps = opts[calls[p].key].retryAttempts - 1
        /\ calls[p].sleeps >= 1

\* C12: one getData call invokes fetchData at most retryAttempts times
\* (3 when the option is missing or 0), is over at the first attempt that succeeds
\* and fetches no more, and has invoked it exactly retryAttempts times when every
\* attempt failed
C12_AttemptBound ==
    [][\A p \in DOMAIN calls :
        calls'[p].pc # "idle" =>
        LET retryAttempts == opts[calls'[p].key].retryAttempts
            option == opts[calls'[p].key].given.retryAttempts IN
        /\ retryAttempts = (IF option \in {NullNum, 0} THEN 3 ELSE option)
        /\ calls'[p].fetches <= retryAttempts
        /\ FetchSucceeded(p) =>
               /\ calls'[p].fetches = calls[p].fetches
               /\ calls'[p].fetches = calls[p].attempt + 1
               /\ calls'[p].attempt = calls[p].attempt
        /\ (calls[p].pc = "done" /\ calls'[p].fetches # calls[p].fetches) =>
               /\ calls'[p].fetches \in {0, 1}
               /\ calls'[p].attempt = 0
        /\ (calls[p].pc = "fetching" /\ calls'[p].attempt = calls[p].attempt + 1) =>
               IF calls[p].fetches = retryAttempts
               THEN /\ calls'[p].pc = "done"
                    /\ ~ReturnedFrom(calls'[p], "api")
                    /\ calls'[p].fetches = retryAttempts
               ELSE calls'[p].pc = "sleeping"]_vars

\* C12 happens: a service made without the retryAttempts option failed three times
\* and threw
C12_Witness ==
    \E p \in DOMAIN calls :
        /\ calls[p].pc = "done"
        /\ opts[calls[p].key].given.retryAttempts = NullNum
        /\ calls[p].outcome.kind = "thrown"
        /\ calls[p].fetches = 3
        /\ calls[p].attempt = 3

\* C13: when the last attempt of a call fails and the entry of the source carries
\* another signature than the call's non-null signature, the call does not return
\* stale_cache: it throws, the persisted state is unhealthy, and the entry stays in
\* the cache as it was
C13_MismatchNotStale ==
    [][\A p \in DOMAIN calls :
        LastAttemptFailed(p) /\ EntryMismatches(calls[p].key, calls[p].cacheSignature)
        => /\ ~ReturnedFrom(calls'[p], "stale_cache")
           /\ calls'[p].outcome.kind = "thrown"
           /\ calls'[p].outcome.message = calls'[p].lastError
           /\ state'.service_status[calls[p].key].state = "unhealthy"
           /\ state'.service_cache[calls[p].key] = CacheOf(calls[p].key)
           /\ state'.service_cache[calls[p].key] # Absent]_vars

\* C13 happens: a call threw although an entry, of another signature, is in the cache
C13_Witness ==
    \E p \in DOMAIN calls :
        /\ calls[p].pc = "done"
        /\ calls[p].outcome.kind = "thrown"
        /\ calls[p].attempt = opts[calls[p].key].retryAttempts
        /\ EntryMismatches(calls[p].key, calls[p].cacheSignature)
        /\ StatusOf(calls[p].key).state = "unhealthy"

----------------------------------------------------------------------------
(* Properties of overlapping getData calls *)

\* C14: whenever the cache entry of a source is replaced by another entry, the new
\* entry's fetchedAt is at least the fetchedAt of the entry it replaces, and the
\* clock the calls read never goes back
C14_FetchedAtMonotonic ==
    [][/\ now' >= now
       /\ \A k \in AllKeys :
              (CacheOf(k) # Absent /\ state'.service_cache[k] # Absent) =>
                  state'.service_cache[k].fetchedAt >= CacheOf(k).fetchedAt]_vars

\* C14 happens: two calls overlapped, the one that began first ended last, and the
\* entry it wrote replaced the entry of the other
C14_Witness ==
    /\ calls[1].pc = "done" /\ calls[2].pc = "done"
    /\ ReturnedFrom(calls[1], "api") /\ ReturnedFrom(calls[2], "api")
    /\ calls[1].key = calls[2].key
    /\ calls[1].apiCallStart < calls[2].apiCallStart
    /\ calls[2].apiCallStart < now
    /\ CacheOf(calls[1].key).fetchedAt = now
    /\ CacheOf(calls[1].key).data = calls[1].outcome.data
    /\ calls[1].outcome.data # calls[2].outcome.data

----------------------------------------------------------------------------
(* Specification of the faulty file system: calls on a source while reads and *)
(* writes of the state file may fail                                          *)

\* the file system starts or stops failing reads or writes
SetIo(m) ==
    /\ m # env.io
    /\ env' = [env EXCEPT !.io = m]
    /\ UNCHANGED <<now, opts, state, calls, today, agg>>

InitIo ==
    /\ now = StartTime
    /\ env = [sources |-> {CALENDAR}, down |-> {},
              enabled |-> [j \in AllKeys |-> TRUE], locations |-> "locA", io |-> IoWorks]
    /\ opts = [k \in AllKeys |-> Constructor(ServiceOptions(k))]
    /\ state = EmptyState
    /\ calls = [p \in {1} |-> IdleCall]
    /\ today = FirstDay
    /\ agg = Absent

NextIo ==
    \/ \E p \in DOMAIN calls, k \in env.sources : GetData(p, k)
    \/ \E p \in DOMAIN calls, k \in AllKeys : \E d \in ApiData(k) : FetchSucceeds(p, d)
    \/ \E p \in DOMAIN calls, msg \in Msgs : AttemptFails(p, msg)
    \/ \E p \in DOMAIN calls : SleepDone(p)
    \/ Tick
    \/ \E m \in IoModes : SetIo(m)

SpecIo == InitIo /\ [][NextIo]_vars

----------------------------------------------------------------------------
(* Properties of getData on a faulty file system *)

\* C15: whether reads or writes of the state file fail or not, a getData call
\* whose fetchData succeeds returns the fetched data with source 'api' and
\* status.state 'healthy', and does not throw
C15_IoFaultsHarmless ==
    [][\A p \in DOMAIN calls, k \in AllKeys :
        \A d \in ApiData(k) :
            FetchSucceeds(p, d)
            => /\ calls'[p].outcome.kind = "returned"
               /\ calls'[p].outcome.data = d
               /\ calls'[p].outcome.source = "api"
               /\ calls'[p].outcome.status.state = "healthy"]_vars

\* C15 fails: the write fails while the file holds the unhealthy status of an
\* earlier call, and the call whose fetch succeeded returns that status
C15_Witness ==
    /\ ~env.io.write
    /\ ReturnedFrom(calls[1], "api")
    /\ calls[1].outcome.status.state = "unhealthy"
    /\ StatusOf(calls[1].key) # Absent
    /\ StatusOf(calls[1].key).state = "unhealthy"

----------------------------------------------------------------------------
(* Properties of the summary of buildDashboardData (lib/dataBuilder.ts) *)

\* the step in which a run of lib/dataBuilder.ts returns its snapshot
ReturnsSnapshot ==
    /\ agg.pc = "llm"
    /\ agg'.pc = "done"
    /\ agg'.outcome.kind = "returned"

\* llm_source names the tier daily_summary was taken from: the LLM call's own answer
\* under the source it returned, the LLM cache entry whatever its age, or the static
\* description of the weather
NamesTier ==
    LET r == calls[1].outcome
        o == agg'.outcome
        fromCall == /\ r.kind = "returned"
                    /\ r.source = o.llm_source
                    /\ r.data # NullData
                    /\ o.daily_summary = trim(r.data.daily_summary)
        fromEntry == /\ CacheOf(LLM) # Absent
                     /\ o.daily_summary = trim(CacheOf(LLM).data.daily_summary)
    IN  /\ o.llm_source \in {"api", "cache"} => fromCall
        /\ o.llm_source = "stale_cache" => fromCall \/ fromEntry
        /\ o.llm_source = "static_fallback" =>
               \E hour \in Hours :
                   o.daily_summary =
                       buildStaticDescription(StaticInput(agg.weatherData), hour)

\* C16 as stated: llm_source of every snapshot is one of 'api', 'stale_cache' and
\* 'static_fallback', and names the tier that produced daily_summary
C16_Original ==
    [][ReturnsSnapshot =>
          /\ agg'.outcome.llm_source \in {"api", "stale_cache", "static_fallback"}
          /\ NamesTier]_vars

\* C16: llm_source of every snapshot is one of 'api', 'cache', 'stale_cache' and
\* 'static_fallback', and names the tier that produced daily_summary
C16_Provenance ==
    [][ReturnsSnapshot =>
          /\ agg'.outcome.llm_source \in {"api", "cache", "stale_cache", "static_fallback"}
          /\ NamesTier]_vars

\* C16 happens: the LLM call answered from its fresh cache entry and the snapshot
\* carries that summary under llm_source 'cache'
C16_Witness ==
    /\ Snapshot
    /\ agg.variant = "three"
    /\ calls[1].key = LLM
    /\ ReturnedFrom(calls[1], "cache")
    /\ agg.outcome.llm_source = "cache"
    /\ agg.outcome.daily_summary = <<"w">>

\* the LLM call gave no valid summary: it threw, or returned no data (disabled), or
\* a summary that is missing, empty or white space only
NoValidInsights ==
    LET r == calls[1].outcome IN
    \/ r.kind = "thrown"
    \/ /\ r.kind = "returned"
       /\ \/ r.data = NullData
          \/ ~IsTruthyText(r.data.daily_summary)
          \/ trim(r.data.daily_summary) = <<>>

\* the LLM cache entry, whatever its age, has a daily_summary
CachedSummaryAvailable ==
    /\ CacheOf(LLM) # Absent
    /\ IsTruthyText(CacheOf(LLM).data.daily_summary)

\* C17: when the LLM call yields no valid summary, the snapshot's summary is that of
\* the LLM cache entry, whatever its age, if the entry has a daily_summary, and the
\* static description under llm_source 'static_fallback' only when no such entry
\* exists
C17_FallbackOrder ==
    [][(ReturnsSnapshot /\ NoValidInsights) =>
          IF CachedSummaryAvailable
          THEN /\ agg'.outcome.llm_source = "stale_cache"
               /\ agg'.outcome.daily_summary = trim(CacheOf(LLM).data.daily_summary)
          ELSE /\ agg'.outcome.llm_source = "static_fallback"
               /\ \E hour \in Hours :
                      agg'.outcome.daily_summary =
                          buildStaticDescription(StaticInput(agg.weatherData), hour)]_vars

\* C17 happens: the LLM source was disabled after a run cached a summary, the entry
\* has outlived its TTL, and the snapshot carries the cached summary
C17_Witness ==
    /\ Snapshot
    /\ agg.variant = "three"
    /\ calls[1].key = LLM
    /\ ReturnedFrom(calls[1], "disabled")
    /\ CachedSummaryAvailable
    /\ now - CacheOf(LLM).fetchedAt >= opts[LLM].cacheTTL
    /\ agg.outcome.llm_source = "stale_cache"
    /\ agg.outcome.daily_summary = <<"w">>

----------------------------------------------------------------------------
(* Specification of the day-over-day comparison: computeTempComparison run on *)
(* any highs over the days, from the empty document                           *)

\* the last day of a behaviour
MaxDay == 4

\* today's forecast highs: below, at and above zero, with differences on both
\* sides of the two thresholds
Temps == {0 - 6, 0, 1, 5, 6, 7}

\* lines 100-102 of a run: todayForecast?.high, undefined when there is no
\* forecast, and the comparison computed from it; the run is remembered with its
\* date, the highs it found stored and the dates ever stored
TempRun(todayHigh) ==
    /\ LET tc == computeTempComparison(state, todayHigh, today)
       IN  /\ state' = tc.st
           /\ agg' = [todayHigh |-> todayHigh, temp_comparison |-> tc.value,
                       day |-> today, before |-> state.daily_highs,
                       ever |-> (IF agg = Absent THEN {} ELSE agg.ever)
                                    \cup DOMAIN tc.st.daily_highs]
    /\ UNCHANGED <<now, env, opts, calls, today>>

\* midnight passes
NewDay ==
    /\ today < MaxDay
    /\ today' = today + 1
    /\ now' = now + DayLen
    /\ UNCHANGED <<env, opts, state, calls, agg>>

InitTemp ==
    /\ now = StartTime
    /\ env = [sources |-> {WEATHER}, down |-> {},
              enabled |-> [j \in AllKeys |-> TRUE], locations |-> "locA", io |-> IoWorks]
    /\ opts = [k \in AllKeys |-> Constructor(ServiceOptions(k))]
    /\ state = EmptyState
    /\ calls = [p \in {1} |-> IdleCall]
    /\ today = FirstDay
    /\ agg = Absent

NextTemp ==
    \/ \E todayHigh \in Temps \cup {NullNum} : TempRun(todayHigh)
    \/ NewDay

SpecTemp == InitTemp /\ [][NextTemp]_vars

----------------------------------------------------------------------------
(* Properties of computeTempComparison *)

\* the stored highs, and whether a date is a key of them
StoredHighs == state.daily_highs
IsStored(date) == date \in DOMAIN StoredHighs

Classes ==
    {"Same as yesterday", "Much warmer than yesterday", "Warmer than yesterday",
     "Much cooler than yesterday", "Cooler than yesterday"}

\* the class of the claim for today's high t and yesterday's y
ClassIs(value, t, y) ==
    LET d == t - y IN
    /\ value = "Same as yesterday" <=> (d < 1 /\ 0 - d < 1)
    /\ value = "Much warmer than yesterday" <=> d >= 6
    /\ value = "Warmer than yesterday" <=> (1 <= d /\ d < 6)
    /\ value = "Much cooler than yesterday" <=> d <= 0 - 6
    /\ value = "Cooler than yesterday" <=> (0 - 6 < d /\ d <= 0 - 1)
    /\ value \in Classes

\* C18: when today's key is already stored and yesterday's stored high is y,
\* computeTempComparison(t) returns for every integer pair (t, y) the one class of
\* t - y: Same iff |t-y| < 1, Much warmer iff t-y >= 6, Warmer iff 1 <= t-y < 6,
\* Much cooler iff t-y <= -6, Cooler iff -6 < t-y <= -1
C18_Classification ==
    [][\A t \in Temps :
        (TempRun(t) /\ IsStored(today) /\ IsStored(today - 1))
        => ClassIs(agg'.temp_comparison, t, StoredHighs[today - 1])]_vars

\* C18 of the runs in which today's stored high is not 0: the class is the claim's
C18_NonZeroToday ==
    [][\A t \in Temps :
        (TempRun(t) /\ IsStored(today) /\ IsStored(today - 1)
                    /\ StoredHighs[today] # 0)
        => ClassIs(agg'.temp_comparison, t, StoredHighs[today - 1])]_vars

\* C18 fails: today's key is stored with a high of 0, yesterday's high is stored,
\* and the run returned no comparison
C18_Witness ==
    /\ agg # Absent
    /\ agg.day = today
    /\ agg.day \in DOMAIN agg.before /\ agg.day - 1 \in DOMAIN agg.before
    /\ agg.before[agg.day] = 0
    /\ agg.before[agg.day - 1] = 1
    /\ agg.todayHigh = 7
    /\ agg.temp_comparison = NULL

\* C19: whenever daily_highs has no entry for yesterday's date, computeTempComparison
\* returns null for every input value: never a class, never a number
C19_NoYesterdayNoComparison ==
    [][\A t \in Temps \cup {NullNum} :
        (TempRun(t) /\ ~IsStored(today - 1))
        => /\ agg'.temp_comparison = NULL
           /\ agg'.temp_comparison \notin Classes]_vars

\* C19 happens: today's key was stored, yesterday's was not, and a run with a high
\* equal to the one stored returned no comparison
C19_Witness ==
    /\ agg # Absent
    /\ agg.day = today
    /\ today > FirstDay
    /\ agg.day \in DOMAIN agg.before /\ agg.day - 1 \notin DOMAIN agg.before
    /\ agg.before[agg.day] = 5
    /\ agg.todayHigh = 5
    /\ agg.temp_comparison = NULL
    /\ StoredHighs = agg.before

\* the first run of a day: today's key is absent, the high is stored under it and no
\* comparison is returned, yesterday's high stored or not
FirstRunStores(t) ==
    (TempRun(t) /\ ~IsStored(today))
    => /\ today \in DOMAIN state'.daily_highs
       /\ state'.daily_highs[today] = t
       /\ agg'.temp_comparison = NULL

\* a later run of the day, yesterday's high being stored, returns a class
LaterRunCompares(t) ==
    (TempRun(t) /\ IsStored(today) /\ IsStored(today - 1))
    => agg'.temp_comparison \in Classes

\* C20: if today's key is absent from daily_highs, computeTempComparison stores
\* today's value under today's key and returns null for that run even when
\* yesterday's value is stored; a later run on the same day with yesterday's value
\* present returns a classification
C20_FirstRunOfDay ==
    [][\A t \in Temps : FirstRunStores(t) /\ LaterRunCompares(t)]_vars

\* C20, the first run alone: the store and the null result
C20_FirstRunAlone ==
    [][\A t \in Temps : FirstRunStores(t)]_vars

\* C20 fails: the first run of the day stored a high of 0 next to yesterday's, and
\* the later run of the day returned no comparison
C20_Witness ==
    /\ agg # Absent
    /\ agg.day = today
    /\ agg.day \in DOMAIN agg.before /\ agg.day - 1 \in DOMAIN agg.before
    /\ agg.before[agg.day] = 0
    /\ agg.before[agg.day - 1] = 0 - 6
    /\ agg.todayHigh = 0
    /\ agg.temp_comparison = NULL
    /\ StoredHighs = agg.before

\* C21: whenever today's key is present in daily_highs with any stored value, 0
\* included, and yesterday's key is present, computeTempComparison returns a class
\* and leaves daily_highs unchanged
C21_PresentMeansCompare ==
    [][\A t \in Temps :
        (TempRun(t) /\ IsStored(today) /\ IsStored(today - 1))
        => /\ agg'.temp_comparison # NULL
           /\ agg'.temp_comparison \in Classes
           /\ state'.daily_highs = state.daily_highs]_vars

\* C21, the stored high of today not being 0: a class is returned and daily_highs is
\* left unchanged
C21_TruthyMeansCompare ==
    [][\A t \in Temps :
        (TempRun(t) /\ IsStored(today) /\ IsStored(today - 1)
                    /\ StoredHighs[today] # 0)
        => /\ agg'.temp_comparison \in Classes
           /\ state'.daily_highs = state.daily_highs]_vars

\* C21 fails: today's key held 0 next to yesterday's high, the run returned no
\* comparison and replaced today's high
C21_Witness ==
    /\ agg # Absent
    /\ agg.day = today
    /\ agg.day \in DOMAIN agg.before /\ agg.day - 1 \in DOMAIN agg.before
    /\ agg.before[agg.day] = 0
    /\ agg.before[agg.day - 1] = 5
    /\ agg.todayHigh = 1
    /\ agg.temp_comparison = NULL
    /\ StoredHighs[today] = 1
    /\ StoredHighs # agg.before

\* the three most recent of a set of dates
MostRecent3(dates) == {d \in dates : Cardinality({e \in dates : e > d}) < 3}

\* C22: starting from an empty map, after any sequence of runs on non-decreasing
\* dates, daily_highs holds at most 3 date keys, they are the 3 most recent dates
\* ever stored, and the key stored by the current run is among them
C22_RingOfThree ==
    /\ Cardinality(DOMAIN StoredHighs) <= 3
    /\ agg = Absent => DOMAIN StoredHighs = {}
    /\ agg # Absent =>
           /\ DOMAIN StoredHighs = MostRecent3(agg.ever)
           /\ agg.todayHigh # NullNum => agg.day \in DOMAIN StoredHighs

\* C22 happens: highs were stored on four dates and the map holds the last three
C22_Witness ==
    /\ agg # Absent
    /\ Cardinality(agg.ever) = 4
    /\ agg.day = today
    /\ agg.day \notin DOMAIN agg.before
    /\ Cardinality(DOMAIN agg.before) = 3
    /\ DOMAIN StoredHighs = {today - 2, today - 1, today}

----------------------------------------------------------------------------
(* Properties of the persisted status *)

\* the persisted latency of source k in document st, null when nothing is persisted
PersistedLatency(st, k) ==
    IF st.service_status[k] = Absent THEN NullNum ELSE st.service_status[k].latency

\* the step in which call p ends by returning from the given source
EndsFrom(p, source) == calls[p].pc # "done" /\ ReturnedFrom(calls'[p], source)

\* the calls ending from the cache or the stale cache leave the persisted latency
\* as it was, and the latency changes only when a fetch succeeds or the call throws
LatencyKept(p) ==
    LET k == calls'[p].key IN
    /\ (EndsFrom(p, "cache") \/ EndsFrom(p, "stale_cache")) =>
           PersistedLatency(state', k) = PersistedLatency(state, k)
    /\ \A j \in AllKeys :
           PersistedLatency(state', j) # PersistedLatency(state, j) =>
               /\ calls[p].pc = "fetching"
               /\ calls[p].key = j
               /\ EndsFrom(p, "api") \/ Throws(p)

\* C23: after a getData call that returns source 'cache' or 'stale_cache' the
\* persisted latency of the source equals the one before the call, for every previous
\* value, 0 included; the latency changes only on a successful fetch or a hard failure
C23_LatencyPreserved ==
    [][\A p \in DOMAIN calls : LatencyKept(p)]_vars

\* C23 of the steps that start with no persisted latency of 0
C23_NonZeroLatencyPreserved ==
    [][\A p \in DOMAIN calls :
        (\A j \in AllKeys : PersistedLatency(state, j) # 0) => LatencyKept(p)]_vars

\* C23 fails: the calendar's fetch took no measurable time, a later call was a
\* cache hit and the persisted latency is null
C23_Witness ==
    /\ calls[1].key = CALENDAR
    /\ ReturnedFrom(calls[1], "cache")
    /\ StatusOf(CALENDAR).state = "healthy"
    /\ StatusOf(CALENDAR).latency = NullNum
    /\ calls[1].outcome.status.latency = NullNum

\* the step in which call p begins a fetchData call
BeginsFetch(p) ==
    /\ calls'[p].pc = "fetching"
    /\ calls[p].pc # "fetching" \/ calls'[p].fetches # calls[p].fetches

\* C24: a getData call that returns source 'api' after k failed attempts records as
\* latency the duration of the last, successful fetchData call alone, counted from
\* the moment that call began, after the k sleeps and the k failed attempts; the
\* result has error null and state 'healthy'
C24_LatencyOfLastFetch ==
    [][\A p \in DOMAIN calls :
        /\ BeginsFetch(p) => calls'[p].apiCallStart = now
        /\ EndsFrom(p, "api") =>
               LET k == calls[p].key
                   duration == now - calls[p].apiCallStart
               IN  /\ calls[p].pc = "fetching"
                   /\ calls[p].fetches = calls[p].attempt + 1
                   /\ calls[p].sleeps = calls[p].attempt
                   /\ state'.service_status[k].latency = duration
                   /\ state'.service_status[k].error = NULL
                   /\ state'.service_status[k].state = "healthy"
                   /\ calls'[p].outcome.status.latency = duration
                   /\ calls'[p].outcome.status.error = NULL
                   /\ calls'[p].outcome.status.state = "healthy"]_vars

\* C24 happens: the fetch of the second attempt began after a failed attempt and a
\* sleep, took one tick, and the latency recorded is that tick
C24_Witness ==
    /\ ReturnedFrom(calls[1], "api")
    /\ calls[1].attempt = 1
    /\ calls[1].sleeps = 1
    /\ calls[1].fetches = 2
    /\ calls[1].apiCallStart = StartTime + 1
    /\ now = StartTime + 2
    /\ calls[1].outcome.status.latency = 1
    /\ StatusOf(calls[1].key).latency = 1

----------------------------------------------------------------------------
(* Specification of the admin panel: the calls of Spec and the status route *)

\* the services getServiceStatuses() instantiates
StatusKeys == {WEATHER, LLM, CALENDAR}

\* the statuses with isEnabled taken from the persisted state
getServiceStatuses_FromSaved(st) ==
    [k \in StatusKeys |->
        LET saved == getStateKey(st, "service_status")[k]
            cache == getStateKey(st, "service_cache")[k]
            enabled == saved = Absent \/ saved.state # "disabled"
        IN  [isEnabled |-> enabled,
             state     |-> IF saved = Absent
                           THEN (IF enabled THEN "unknown" ELSE "disabled")
                           ELSE OrStr(saved.state,
                                      IF enabled THEN "unknown" ELSE "disabled"),
             cacheTTL  |-> opts[k].cacheTTL,
             fetchedAt |-> IF cache = Absent THEN NullNum
                           ELSE OrNum(cache.fetchedAt, NullNum),
             latency   |-> IF saved = Absent THEN NullNum
                           ELSE OrNum(saved.latency, NullNum),
             error     |-> IF saved = Absent THEN NULL ELSE OrStr(saved.error, NULL)]]

\* lib/dataBuilder.ts, getServiceStatuses(): the status of each service from the
\* document st, the enablement asked of a new instance
getServiceStatuses(st) ==
    [k \in StatusKeys |->
        LET saved == getStateKey(st, "service_status")[k]
            cache == getStateKey(st, "service_cache")[k]
            enabled == isEnabled(k)
        IN  [isEnabled |-> enabled,
             state     |-> IF saved = Absent
                           THEN (IF enabled THEN "unknown" ELSE "disabled")
                           ELSE OrStr(saved.state,
                                      IF enabled THEN "unknown" ELSE "disabled"),
             cacheTTL  |-> opts[k].cacheTTL,
             fetchedAt |-> IF cache = Absent THEN NullNum
                           ELSE OrNum(cache.fetchedAt, NullNum),
             latency   |-> IF saved = Absent THEN NullNum
                           ELSE OrNum(saved.latency, NullNum),
             error     |-> IF saved = Absent THEN NULL ELSE OrStr(saved.error, NULL)]]

\* GET /api/services/status: the admin panel asks for the statuses
GetServiceStatuses ==
    /\ agg = Absent
    /\ agg' = [pc |-> "done", services |-> getServiceStatuses(state)]
    /\ UNCHANGED <<now, env, opts, state, calls, today>>

\* the response is sent; the handler has no await, nothing runs in between
SendStatuses ==
    /\ agg # Absent
    /\ agg' = Absent
    /\ UNCHANGED <<now, env, opts, state, calls, today>>

NextStatus ==
    \/ agg = Absent /\ Next
    \/ GetServiceStatuses
    \/ SendStatuses

SpecStatus == Init /\ [][NextStatus]_vars

----------------------------------------------------------------------------
(* Properties of the statuses read *)

\* the fetchedAt of the cache entry of source k in document st, null without one
FetchedAtOf(st, k) ==
    IF st.service_cache[k] = Absent THEN NullNum ELSE st.service_cache[k].fetchedAt

\* C25: the persisted service_status entry holds only state, latency and error, and
\* in every status returned by getStatus() or getServiceStatuses(), isEnabled is the
\* value of isEnabled() at read time and fetchedAt the fetchedAt of the current cache
\* entry, null if none, whatever was persisted earlier
C25_LiveEnablementAndStamp ==
    [][/\ \A k \in AllKeys :
              state'.service_status[k] # Absent =>
                  DOMAIN state'.service_status[k] = {"state", "latency", "error"}
       /\ \A p \in DOMAIN calls :
              (calls[p].pc # "done" /\ calls'[p].pc = "done"
                                    /\ calls'[p].outcome.kind = "returned") =>
                  /\ calls'[p].outcome.status.isEnabled = env.enabled[calls'[p].key]
                  /\ calls'[p].outcome.status.fetchedAt =
                         FetchedAtOf(state', calls'[p].key)
       /\ GetServiceStatuses =>
              \A k \in StatusKeys :
                  /\ agg'.services[k].isEnabled = env.enabled[k]
                  /\ agg'.services[k].fetchedAt = FetchedAtOf(state, k)]_vars

\* C25 happens: the source was disabled after a successful call left a healthy
\* status and a cache entry, and the statuses read say disabled credentials and the
\* entry's fetchedAt
C25_Witness ==
    /\ agg # Absent
    /\ \E k \in StatusKeys :
        /\ ~env.enabled[k]
        /\ StatusOf(k) # Absent
        /\ StatusOf(k).state = "healthy"
        /\ CacheOf(k) # Absent
        /\ agg.services[k].isEnabled = FALSE
        /\ agg.services[k].state = "healthy"
        /\ agg.services[k].fetchedAt = CacheOf(k).fetchedAt

----------------------------------------------------------------------------
(* Specification of malformed payloads: the calls of Spec, with attempts in which *)
(* mapToDashboard throws                                                          *)

NextTransform ==
    \/ Next
    \/ \E p \in DOMAIN calls, msg \in TransformMsgs : TransformFails(p, msg)

SpecTransform == Init /\ [][NextTransform]_vars

\* C26: if fetchData succeeds but mapToDashboard throws on an attempt, the attempt
\* counts as failed and nothing from it is written to the cache or to the status;
\* if attempts remain the call sleeps before the next one, and after the last
\* attempt the stale-cache or hard-failure path is taken with the transform error
\* as last error
C26_TransformRetried ==
    [][\A p \in DOMAIN calls, msg \in TransformMsgs :
        TransformFails(p, msg) =>
            LET c == calls[p]
                k == c.key
            IN  /\ calls'[p].attempt = c.attempt + 1
                /\ calls'[p].lastError = msg
                /\ state'.service_cache = state.service_cache
                /\ IF c.attempt + 1 < opts[k].retryAttempts
                   THEN /\ state' = state
                        /\ calls'[p].pc = "sleeping"
                        /\ calls'[p].sleeps = c.sleeps + 1
                   ELSE /\ calls'[p].pc = "done"
                        /\ state'.service_status[k].error = msg
                        /\ IF EntryMatches(k, c.cacheSignature)
                           THEN /\ ReturnedFrom(calls'[p], "stale_cache")
                                /\ calls'[p].outcome.data = CacheOf(k).data
                                /\ calls'[p].outcome.status.error = msg
                                /\ state'.service_status[k].state = "degraded"
                           ELSE /\ calls'[p].outcome.kind = "thrown"
                                /\ calls'[p].outcome.message = msg
                                /\ state'.service_status[k].state = "unhealthy"]_vars

\* C26 happens: every attempt of a call ended in a transform error, sleeps in
\* between, and the call answered from the stale entry with that error
C26_Witness ==
    /\ ReturnedFrom(calls[1], "stale_cache")
    /\ calls[1].lastError \in TransformMsgs
    /\ calls[1].sleeps >= 1
    /\ calls[1].outcome.status.error \in TransformMsgs
    /\ StatusOf(calls[1].key).state = "degraded"
    /\ StatusOf(calls[1].key).error \in TransformMsgs

\* the state that goes with the way a call ended
StateOfOutcome(o) ==
    IF o.kind = "thrown" THEN "unhealthy"
    ELSE CASE o.source = "disabled" -> "disabled"
           [] o.source \in {"cache", "api"} -> "healthy"
           [] o.source = "stale_cache" -> "degraded"

\* the step in which call p ends, by returning or by throwing
Ends(p) == calls'[p] # calls[p] /\ calls'[p].pc = "done"

\* C27: every getData call that terminates writes the source's service_status entry
\* once, in the step in which it returns or throws and in no step before, and the
\* persisted state and the returned status.state are 'disabled' for source
\* 'disabled', 'healthy' for 'cache' and 'api', 'degraded' for 'stale_cache', and
\* the persisted state is 'unhealthy' when the call throws
C27_StatusAgreesWithOutcome ==
    [][\A p \in DOMAIN calls :
        /\ Ends(p) =>
               LET o == calls'[p].outcome
                   k == calls'[p].key
               IN  /\ state'.service_status[k] # Absent
                   /\ state'.service_status[k].state = StateOfOutcome(o)
                   /\ state'.service_status[k] =
                          [state |-> calls'[p].status.state,
                           latency |-> calls'[p].status.latency,
                           error |-> calls'[p].status.error]
                   /\ o.kind = "returned" => o.status.state = StateOfOutcome(o)
        /\ (calls'[p] # calls[p] /\ ~Ends(p)) =>
               state'.service_status = state.service_status]_vars

\* C27 happens: a call ended from the stale cache, and the persisted and the
\* returned state are both degraded
C27_Witness ==
    /\ ReturnedFrom(calls[1], "stale_cache")
    /\ calls[1].outcome.status.state = "degraded"
    /\ StatusOf(calls[1].key).state = "degraded"
    /\ StatusOf(calls[1].key).error = calls[1].lastError

\* the states of a ServiceStatus
ServiceStates == {"healthy", "degraded", "unhealthy", "disabled", "pending", "unknown"}

\* a defined ServiceStatus
IsServiceStatus(s) ==
    /\ s # Absent
    /\ DOMAIN s = {"isEnabled", "state", "cacheTTL", "fetchedAt", "latency", "error"}
    /\ s.isEnabled \in BOOLEAN
    /\ s.state \in ServiceStates

\* the names of _serviceStatuses in each version of the aggregator
ProvenanceNames(variant) ==
    IF variant = "three" THEN {"weather", "llm", "calendar"}
    ELSE {"weather", "calendar", "news", "markets"}

\* C28: every snapshot returned by buildDashboardData carries in _serviceStatuses
\* one defined ServiceStatus for the required source and for each optional source,
\* whether that source returned data, was disabled, or threw
C28_ProvenanceComplete ==
    Snapshot =>
        /\ DOMAIN agg.outcome.serviceStatuses = ProvenanceNames(agg.variant)
        /\ \A name \in ProvenanceNames(agg.variant) :
               IsServiceStatus(agg.outcome.serviceStatuses[name])

\* C28 happens: a snapshot of a run in which the calendar was disabled and the LLM
\* threw carries the statuses of all three sources
C28_Witness ==
    /\ Snapshot
    /\ agg.variant = "three"
    /\ agg.outcome.serviceStatuses.weather.state = "healthy"
    /\ agg.outcome.serviceStatuses.calendar.state = "disabled"
    /\ agg.outcome.serviceStatuses.llm.state = "unhealthy"
    /\ calls[1].outcome.kind = "thrown"

----------------------------------------------------------------------------
(* Frame properties of the state document *)

\* C29: a source's cache entry is created or replaced only at the end of an attempt
\* in which both fetchData and mapToDashboard succeeded, by a call on that source,
\* and it is stored with the signature computed for that call; every other getData
\* path (disabled, cache hit, stale fallback, hard failure) and every failed attempt
\* leaves service_cache unchanged
C29_CacheWrittenBySuccess ==
    [][/\ \A k \in AllKeys :
              (state'.service_cache[k] # state.service_cache[k]
                   /\ state'.service_cache[k] # Absent) =>
                  \E p \in DOMAIN calls :
                      /\ calls[p].key = k
                      /\ calls[p].pc = "fetching"
                      /\ EndsFrom(p, "api")
                      /\ state'.service_cache[k] =
                             [data |-> calls'[p].outcome.data, fetchedAt |-> now,
                              signature |-> calls[p].cacheSignature]
       /\ \A p \in DOMAIN calls :
              /\ (Ends(p) /\ ~EndsFrom(p, "api")) =>
                     state'.service_cache = state.service_cache
              /\ \A msg \in Msgs \cup TransformMsgs :
                     (AttemptFails(p, msg) \/ TransformFails(p, msg)) =>
                         state'.service_cache = state.service_cache]_vars

\* C29 happens: the weather's entry was replaced by a successful fetch made for
\* other locations than the entry had, under the new signature
C29_Witness ==
    /\ ReturnedFrom(calls[1], "api")
    /\ calls[1].key = WEATHER
    /\ calls[1].attempt >= 1
    /\ calls[1].cacheSignature = "locB"
    /\ CacheOf(WEATHER) # Absent
    /\ CacheOf(WEATHER).signature = "locB"
    /\ CacheOf(WEATHER).data = calls[1].outcome.data

----------------------------------------------------------------------------
(* Specification of two sources on a faulty file system: calls on the calendar and *)
(* on the news, one at a time, while reads and writes of the state file may fail; *)
(* the news API works and answers as usual                                        *)

FrameKeys == {CALENDAR, NEWS}

InitFrame ==
    /\ now = StartTime
    /\ env = [sources |-> {CALENDAR}, down |-> {},
              enabled |-> [j \in AllKeys |-> TRUE], locations |-> "locA", io |-> IoWorks]
    /\ opts = [k \in AllKeys |-> Constructor(ServiceOptions(k))]
    /\ state = EmptyState
    /\ calls = [p \in {1} |-> IdleCall]
    /\ today = FirstDay
    /\ agg = Absent

NextFrame ==
    \/ \E p \in DOMAIN calls, k \in FrameKeys : GetData(p, k)
    \/ \E p \in DOMAIN calls, k \in env.sources : TestServiceFresh(p, k)
    \/ \E p \in DOMAIN calls, k \in AllKeys : \E d \in ApiData(k) : FetchSucceeds(p, d)
    \/ \E p \in DOMAIN calls, msg \in Msgs : AttemptFails(p, msg)
    \/ \E p \in DOMAIN calls : SleepDone(p)
    \/ Tick
    \/ \E m \in IoModes : SetIo(m)

SpecFrame == InitFrame /\ [][NextFrame]_vars

\* a step of a call on source a leaves the entries of every other source and the
\* daily highs as they were
OthersUntouched(p) ==
    calls'[p] # calls[p] =>
        /\ \A b \in AllKeys \ {calls'[p].key} :
               /\ state'.service_cache[b] = state.service_cache[b]
               /\ state'.service_status[b] = state.service_status[b]
        /\ state'.daily_highs = state.daily_highs

\* C30: no operation of source A (getData, setCache, clearCache, saveStatus) changes
\* or removes the cache entry or the status entry of a source B with another
\* cacheKey, nor the daily_highs map, also in runs where a read of the state
\* document fails and is treated as empty
C30_CrossSourceFrame ==
    [][\A p \in DOMAIN calls : OthersUntouched(p)]_vars

\* C30 of the steps in which the state file can be read
C30_FrameWhenReadable ==
    [][\A p \in DOMAIN calls : env.io.read => OthersUntouched(p)]_vars

\* C30 fails: a call on the calendar fetched successfully while reads failed, and
\* the document holds nothing but the calendar's status: no entry of the news, and
\* not even the cache entry the call wrote
C30_Witness ==
    /\ ~env.io.read
    /\ env.io.write
    /\ calls[1].key = CALENDAR
    /\ ReturnedFrom(calls[1], "api")
    /\ StatusOf(CALENDAR) # Absent
    /\ StatusOf(CALENDAR).state = "healthy"
    /\ \A k \in AllKeys : CacheOf(k) = Absent
    /\ \A k \in AllKeys \ {CALENDAR} : StatusOf(k) = Absent

----------------------------------------------------------------------------
(* Specification of two sources in one process: a getData call on the calendar *)
(* and one on the news may overlap, each suspended at its fetch or its sleep   *)

\* the source each caller asks
SourceOf(p) == IF p = 1 THEN CALENDAR ELSE NEWS

InitPair ==
    /\ now = StartTime
    /\ env = [sources |-> {CALENDAR, NEWS}, down |-> {},
              enabled |-> [j \in AllKeys |-> TRUE], locations |-> "locA", io |-> IoWorks]
    /\ opts = [k \in AllKeys |-> Constructor(ServiceOptions(k))]
    /\ state = EmptyState
    /\ calls = [p \in {1, 2} |-> IdleCall]
    /\ today = FirstDay
    /\ agg = Absent

NextPair ==
    \/ \E p \in DOMAIN calls : GetData(p, SourceOf(p))
    \/ \E p \in DOMAIN calls, k \in AllKeys : \E d \in ApiData(k) : FetchSucceeds(p, d)
    \/ \E p \in DOMAIN calls, msg \in Msgs : AttemptFails(p, msg)
    \/ \E p \in DOMAIN calls : SleepDone(p)
    \/ Tick

SpecPair == InitPair /\ [][NextPair]_vars

----------------------------------------------------------------------------
(* Properties of overlapping calls on two sources *)

\* the entries of the source of call c are present, the cache entry holding what the
\* call returned
EntriesPresent(c) ==
    /\ CacheOf(c.key) # Absent
    /\ CacheOf(c.key).data = c.outcome.data
    /\ StatusOf(c.key) # Absent
    /\ StatusOf(c.key).state = "healthy"

\* C31: when two getData calls on different sources overlap and both fetches
\* succeed, both sources' cache entries and both status entries are present
\* afterwards
C31_NoLostUpdate ==
    (/\ ReturnedFrom(calls[1], "api")
     /\ ReturnedFrom(calls[2], "api")
     /\ calls[1].key # calls[2].key)
    => EntriesPresent(calls[1]) /\ EntriesPresent(calls[2])

\* C31 happens: each of the two fetches began before the other's entry was written,
\* and both entries and both statuses are there
C31_Witness ==
    /\ ReturnedFrom(calls[1], "api")
    /\ ReturnedFrom(calls[2], "api")
    /\ calls[1].key = CALENDAR /\ calls[2].key = NEWS
    /\ EntriesPresent(calls[1]) /\ EntriesPresent(calls[2])
    /\ calls[1].apiCallStart < CacheOf(NEWS).fetchedAt
    /\ calls[2].apiCallStart < CacheOf(CALENDAR).fetchedAt
    /\ CacheOf(CALENDAR).fetchedAt < CacheOf(NEWS).fetchedAt

\* C32: for one source with an unchanged signature, across any interleaving of
\* getData calls, also when a call starts while another's fetch is in flight on an
\* empty or expired cache, at most one fetchData invocation succeeds per TTL window:
\* no fetch succeeds while a fresh entry of the call's signature is in the cache
C32_OneFetchPerWindow ==
    [][\A p \in DOMAIN calls :
        FetchSucceeded(p) =>
            ~(/\ EntryFresh(calls[p].key)
              /\ EntryMatches(calls[p].key, calls[p].cacheSignature))]_vars

\* C32 fails: two calls on the source each made one fetch, both began and succeeded
\* within one TTL window, and the second answer is not the first one's
C32_Witness ==
    /\ ReturnedFrom(calls[1], "api") /\ ReturnedFrom(calls[2], "api")
    /\ calls[1].key = calls[2].key
    /\ calls[1].fetches = 1 /\ calls[2].fetches = 1
    /\ calls[1].apiCallStart = calls[2].apiCallStart
    /\ now - calls[1].apiCallStart < opts[calls[1].key].cacheTTL
    /\ calls[1].outcome.status.fetchedAt < calls[2].outcome.status.fetchedAt
    /\ calls[1].outcome.data # calls[2].outcome.data

\* C33: in every reachable persisted state, after any sequence of getData calls with
\* signature changes, enable/disable changes and fetch outcomes, a service_status
\* entry with state 'healthy' has error null
C33_HealthyHasNoError ==
    \A k \in AllKeys :
        (StatusOf(k) # Absent /\ StatusOf(k).state = "healthy")
        => StatusOf(k).error = NULL

\* C33 fails: a call answered from the fresh cache persisted the state healthy
\* together with the message of an earlier failure
C33_Witness ==
    /\ ReturnedFrom(calls[1], "cache")
    /\ StatusOf(calls[1].key).state = "healthy"
    /\ StatusOf(calls[1].key).error \in Msgs
    /\ calls[1].outcome.status.state = "healthy"
    /\ calls[1].outcome.status.error \in Msgs

\* C34: for every persisted state and every enablement value, the status that
\* getServiceStatuses() reports for a source equals the status that a new instance's
\* getStatus() reports for it, field by field
C34_ReadersAgree ==
    agg # Absent =>
        \A k \in StatusKeys :
            LET reported == agg.services[k]
                fresh == getStatus(state, k, InitialStatus)
            IN  /\ reported.state = fresh.state
                /\ reported.isEnabled = fresh.isEnabled
                /\ reported.fetchedAt = fresh.fetchedAt
                /\ reported.latency = fresh.latency
                /\ reported.error = fresh.error

\* C34 of the sources with a persisted status entry: the two readers agree
C34_AgreeWhenPersisted ==
    agg # Absent =>
        \A k \in StatusKeys :
            StatusOf(k) # Absent => agg.services[k] = getStatus(state, k, InitialStatus)

\* C34 fails: for an enabled source that never ran, with no status entry and no
\* cache entry, getServiceStatuses() reports 'unknown' and getStatus() 'pending'
C34_Witness ==
    /\ agg # Absent
    /\ env.enabled[CALENDAR]
    /\ StatusOf(CALENDAR) = Absent
    /\ CacheOf(CALENDAR) = Absent
    /\ agg.services[CALENDAR].state = "unknown"
    /\ getStatus(state, CALENDAR, InitialStatus).state = "pending"


----------------------------------------------------------------------------
(* C35: the required source first *)

\* the source a run asks at each of its positions
AskedAt(pc) ==
    CASE pc = "weather" -> WEATHER
      [] pc = "calendar" -> CALENDAR
      [] pc = "llm" -> LLM
      [] pc = "news" -> NEWS
      [] pc = "markets" -> MARKETS

\* the positions of a run in the order of the awaits of buildDashboardData
RunOrder ==
    {<<"idle", "weather">>, <<"done", "weather">>, <<"weather", "calendar">>,
     <<"weather", "done">>, <<"calendar", "llm">>, <<"llm", "done">>,
     <<"calendar", "news">>, <<"news", "markets">>, <<"markets", "done">>}

\* the entries of the optional sources and the daily highs stay as they are
OptionalUntouched ==
    /\ \A k \in AllKeys \ {WEATHER} :
           /\ state'.service_cache[k] = state.service_cache[k]
           /\ state'.service_status[k] = state.service_status[k]
    /\ state'.daily_highs = state.daily_highs

\* C35: within one buildDashboardData run the sources are asked one after the other,
\* each when the call before it is over, with the weather first; while the weather is
\* asked, no call on an optional source is made, no status or cache entry of an
\* optional source is written and daily_highs is unchanged; and when the weather
\* source's getData throws, the run ends there, with nothing asked or written more
C35_RequiredSourceFirst ==
    [][/\ agg'.pc # agg.pc =>
            /\ <<agg.pc, agg'.pc>> \in RunOrder
            /\ agg.pc \notin {"idle", "done"} => calls[1].pc = "done"
            /\ calls[1].pc \in {"idle", "done"}
            /\ agg'.pc # "done" => calls'[1].key = AskedAt(agg'.pc)
       /\ agg'.pc = "weather" =>
            /\ calls'[1].key = WEATHER
            /\ OptionalUntouched
       /\ (agg.pc = "weather" /\ CallThrew /\ agg' # agg) =>
            /\ agg'.pc = "done"
            /\ agg'.outcome.kind = "thrown"
            /\ state' = state
            /\ calls' = calls]_vars

\* a later run ends on the throwing weather call, the entries of the calendar, written
\* by the run before it, being there
C35_Witness ==
    /\ Raised
    /\ agg.outcome.name = "Error"
    /\ calls[1].key = WEATHER
    /\ agg.runs = 2
    /\ CacheOf(CALENDAR) # Absent
    /\ StatusOf(CALENDAR) # Absent


----------------------------------------------------------------------------
(* C36: getData and buildDashboardData terminate *)

\* a fetchData call that was made settles: it resolves or it rejects
FetchSettles ==
    \/ \E k \in AllKeys : \E d \in ApiData(k) : FetchSucceeds(1, d)
    \/ \E msg \in Msgs : AttemptFails(1, msg)

\* the run goes on after the await of a getData call that is over
RunResumes ==
    \/ AggAfterWeather
    \/ AggAfterCalendar
    \/ AggAfterLLM
    \/ AggAfterNews
    \/ AggAfterMarkets

\* The aggregator's runs under the assumption that every fetchData call and every
\* sleep terminates, and that a run whose awaited call is over is resumed. The
\* one call of a run is fetching, sleeping or over, so that at most one of the three
\* steps is enabled at a time and one fairness condition stands for the three.
NextLive ==
    \/ AggStart
    \/ RunResumes
    \/ FetchSettles
    \/ SleepDone(1)
    \/ Tick

\* the weather is under study: its upstream answers or fails at each attempt
InitLive ==
    /\ InitAgg
    /\ env.sources = {WEATHER}

SpecLive ==
    /\ InitLive
    /\ [][NextLive]_vars
    /\ WF_vars(FetchSettles \/ SleepDone(1) \/ RunResumes)

\* the getData call is under way / the run is under way
CallUnderWay == calls[1].pc \in {"fetching", "sleeping"}
RunUnderWay == agg.pc \notin {"idle", "done"}

\* the fetchData invocations and the sleeps of the call so far are within the bounds
WithinAttempts ==
    /\ calls[1].pc # "idle" =>
           /\ calls[1].fetches <= opts[calls[1].key].retryAttempts
           /\ calls[1].sleeps <= opts[calls[1].key].retryAttempts - 1
           /\ calls[1].sleeps <= calls[1].fetches

\* C36: every getData call that is under way is eventually over, having returned or
\* thrown, after at most retryAttempts fetchData invocations and at most
\* retryAttempts - 1 sleeps; and every buildDashboardData run that is under way is
\* eventually over, having returned a snapshot or thrown
C36_Terminates ==
    /\ [] WithinAttempts
    /\ CallUnderWay ~> (calls[1].pc = "done" /\ calls[1].outcome # Absent)
    /\ RunUnderWay ~> (Snapshot \/ Raised)

\* a call is over that threw after retryAttempts fetchData invocations and
\* retryAttempts - 1 sleeps, and the run it was made in is over
C36_Witness ==
    /\ CallThrew
    /\ calls[1].fetches = opts[calls[1].key].retryAttempts
    /\ calls[1].sleeps = opts[calls[1].key].retryAttempts - 1
    /\ calls[1].sleeps > 0
    /\ Raised


----------------------------------------------------------------------------
(* C37: clearCache forces a real fetch *)

\* Two requests on the calendar that may overlap: request 1 is the test route with
\* fresh=true, clearCache() and then getData(); request 2 is a getData() call
NextFresh ==
    \/ \E k \in env.sources : TestServiceFresh(1, k)
    \/ \E k \in env.sources : GetData(2, k)
    \/ \E p \in DOMAIN calls, k \in AllKeys : \E d \in ApiData(k) : FetchSucceeds(p, d)
    \/ \E p \in DOMAIN calls, msg \in Msgs : AttemptFails(p, msg)
    \/ \E p \in DOMAIN calls : SleepDone(p)
    \/ Tick

SpecFresh == InitTwo /\ [][NextFresh]_vars

\* request 1 begins: clearCache() and the first steps of getData()
FreshBegins == calls[1].pc \in {"idle", "done"} /\ calls'[1] # calls[1]

\* clearCache() removed the entry of source k and nothing else
OnlyCleared(k) ==
    /\ state'.service_cache[k] = Absent
    /\ \A j \in AllKeys \ {k} : state'.service_cache[j] = state.service_cache[j]
    /\ state'.service_status = state.service_status
    /\ state'.daily_highs = state.daily_highs

\* C37: after clearCache() on an enabled source, the getData call that follows it
\* invokes fetchData and ends by returning source 'api' or, all its attempts having
\* failed, by throwing with the state 'unhealthy' persisted; it never returns source
\* 'cache' or 'stale_cache'; and clearCache() removes the cache entry of that source
\* and nothing else
C37_ClearForcesFetch ==
    [][/\ FreshBegins =>
            /\ \A k \in AllKeys : calls'[1].key = k => OnlyCleared(k)
            /\ calls'[1].pc = "fetching"
            /\ calls'[1].fetches = 1
       /\ Ends(1) =>
            /\ calls'[1].fetches >= 1
            /\ \/ ReturnedFrom(calls'[1], "api")
               \/ /\ calls'[1].outcome.kind = "thrown"
                  /\ calls'[1].fetches = opts[calls'[1].key].retryAttempts
                  /\ state'.service_status[calls'[1].key] # Absent
                  /\ state'.service_status[calls'[1].key].state = "unhealthy"]_vars

\* C37 of the request itself: clearCache() removes that entry alone, and the call
\* begins with a fetchData invocation instead of returning the entry
C37_BeginsWithFetch ==
    [][FreshBegins =>
            /\ \A k \in AllKeys : calls'[1].key = k => OnlyCleared(k)
            /\ calls'[1].pc = "fetching"
            /\ calls'[1].fetches = 1]_vars

\* C37 fails: the call after clearCache() is over and returned source 'stale_cache',
\* the entry that request 2 wrote while the attempts of request 1 failed
C37_Witness ==
    /\ calls[1].pc = "done"
    /\ calls[1].outcome.kind = "returned"
    /\ calls[1].outcome.source = "stale_cache"
    /\ calls[1].fetches = opts[calls[1].key].retryAttempts


----------------------------------------------------------------------------
(* Specification of the static description: buildStaticDescription on any input *)

\* the hours of the day: new Date().getHours()
HoursOfDay == 0 .. 23

\* the length of the hourly forecasts that are tried
MaxHourly == 2

\* temperatures on both sides of the thresholds, and a missing one
StaticTemps == {NullNum, 5, 12, 22, 30, 40}

\* descriptions: missing, empty, and some of the upstream's
Descriptions == {NULL, "", "Clear", "Fog", "Light rain", "Partly cloudy"}

\* weatherData.current: missing, or with fields present or missing
CurrentInputs ==
    {Absent} \cup [temp : StaticTemps, description : Descriptions]

\* the days of weatherData.forecast: no field, a dry hot day, a mild rainy day
DayInputs ==
    {[high |-> NullNum, low |-> NullNum, rain_chance |-> NullNum],
     [high |-> 40, low |-> 3, rain_chance |-> 0],
     [high |-> 22, low |-> 12, rain_chance |-> 80]}

\* the hours of weatherData.hourlyForecast
HourInputs ==
    {[temp |-> NullNum, rain_chance |-> NullNum],
     [temp |-> 10, rain_chance |-> 0],
     [temp |-> 25, rain_chance |-> 90]}

\* the sequences over S of length at most n
SeqsUpTo(S, n) == UNION {[1 .. m -> S] : m \in 0 .. n}

\* the inputs of one call: the local hour and the weather data
InitStatic ==
    /\ now = StartTime
    /\ env = [sources |-> {}, down |-> {}, enabled |-> [j \in AllKeys |-> TRUE],
              locations |-> "locA", io |-> IoWorks]
    /\ opts = [k \in AllKeys |-> Constructor(ServiceOptions(k))]
    /\ state = EmptyState
    /\ calls = [p \in {1} |-> IdleCall]
    /\ today = FirstDay
    /\ \E hour \in HoursOfDay, current \in CurrentInputs,
          forecast \in SeqsUpTo(DayInputs, 2),
          hourlyForecast \in SeqsUpTo(HourInputs, MaxHourly) :
           agg = [pc |-> "called", hour |-> hour,
                  weatherData |-> [current |-> current, forecast |-> forecast,
                                   hourlyForecast |-> hourlyForecast],
                  period |-> NULL, daily_summary |-> <<>>]

\* buildStaticDescription(weatherData) returns
Describe ==
    /\ agg.pc = "called"
    /\ agg' = [agg EXCEPT !.pc = "returned",
                          !.period = getTimeContext(agg.hour),
                          !.daily_summary = buildStaticDescription(agg.weatherData,
                                                                   agg.hour)]
    /\ UNCHANGED <<now, env, opts, state, calls, today>>

NextStatic == Describe

SpecStatic == InitStatic /\ [][NextStatic]_vars

----------------------------------------------------------------------------
(* C38: the static substitute is total *)

\* the hours of the buckets: morning 5-10, afternoon 11-15, evening 16-19, night 20-4
Buckets ==
    [morning |-> 5 .. 10, afternoon |-> 11 .. 15, evening |-> 16 .. 19,
     night |-> (20 .. 23) \cup (0 .. 4)]

\* every hour of the day is in exactly one bucket
BucketsPartition ==
    \A h \in HoursOfDay : Cardinality({b \in DOMAIN Buckets : h \in Buckets[b]}) = 1

\* a text with something in it
NonEmptyText(text) == Len(text) > 0 /\ \E i \in DOMAIN text : text[i] # ""

\* C38: the time-of-day buckets partition the hours 0..23 (morning 5-10, afternoon
\* 11-15, evening 16-19, night 20-4), getTimeContext puts every hour in its bucket,
\* and for every hour and every weather input, missing current conditions, an empty
\* forecast and an empty hourly forecast included, buildStaticDescription returns a
\* non-empty daily_summary
C38_StaticTotal ==
    /\ BucketsPartition
    /\ agg.pc = "returned" =>
           /\ agg.period \in DOMAIN Buckets
           /\ agg.hour \in Buckets[agg.period]
           /\ NonEmptyText(agg.daily_summary)

\* the description of an input with no current conditions, no forecast and no hourly
\* forecast was returned, at an hour of the night after midnight
C38_Witness ==
    /\ agg.pc = "returned"
    /\ agg.weatherData.current = Absent
    /\ agg.weatherData.forecast = <<>>
    /\ agg.weatherData.hourlyForecast = <<>>
    /\ agg.hour = 4
    /\ agg.period = "night"
    /\ NonEmptyText(agg.daily_summary)


----------------------------------------------------------------------------
(* Specification of the classification: two highs compared both ways *)

\* the highs that are tried are the integers -MaxHigh .. MaxHigh
MaxHigh == 7

Highs == (0 - MaxHigh) .. MaxHigh

\* two highs, to be compared
InitClassify ==
    /\ now = StartTime
    /\ env = [sources |-> {}, down |-> {}, enabled |-> [j \in AllKeys |-> TRUE],
              locations |-> "locA", io |-> IoWorks]
    /\ opts = [k \in AllKeys |-> Constructor(ServiceOptions(k))]
    /\ state = EmptyState
    /\ calls = [p \in {1} |-> IdleCall]
    /\ today = FirstDay
    /\ \E a \in Highs, b \in Highs :
           agg = [pc |-> "called", a |-> a, b |-> b, ab |-> NULL, ba |-> NULL]

\* lines 288-303 on today = a, yesterday = b, and on today = b, yesterday = a
ClassifyBoth ==
    /\ agg.pc = "called"
    /\ agg' = [agg EXCEPT !.pc = "returned",
                          !.ab = Classify(agg.a, agg.b),
                          !.ba = Classify(agg.b, agg.a)]
    /\ UNCHANGED <<now, env, opts, state, calls, today>>

NextClassify == ClassifyBoth

SpecClassify == InitClassify /\ [][NextClassify]_vars

----------------------------------------------------------------------------
(* C39: the classification is antisymmetric *)

\* the class that mirrors a class
Mirror(class) ==
    CASE class = "Same as yesterday" -> "Same as yesterday"
      [] class = "Warmer than yesterday" -> "Cooler than yesterday"
      [] class = "Cooler than yesterday" -> "Warmer than yesterday"
      [] class = "Much warmer than yesterday" -> "Much cooler than yesterday"
      [] class = "Much cooler than yesterday" -> "Much warmer than yesterday"

\* C39: for every pair of integer highs (a, b), the class of today = a against
\* yesterday = b and the class of today = b against yesterday = a mirror each other:
\* Warmer with Cooler, Much warmer with Much cooler, Same with Same
C39_Antisymmetric ==
    agg.pc = "returned" =>
        /\ agg.ab \in Classes
        /\ agg.ba \in Classes
        /\ agg.ba = Mirror(agg.ab)
        /\ agg.ab = Mirror(agg.ba)

\* two highs that are exactly the strong threshold apart were compared both ways
C39_Witness ==
    /\ agg.pc = "returned"
    /\ agg.a - agg.b = 6
    /\ agg.ab = "Much warmer than yesterday"
    /\ agg.ba = "Much cooler than yesterday"

====
